---- MODULE Spec2Model ----
(***************************************************************************)
(* A model of hipFFT's rocFFT backend (library/src/amd_detail/hipfft.cpp): *)
(* one logical plan (hipfftHandle_t) with its four rocfft_plan slots, its  *)
(* execution info and its work buffer, the public operations on it, and    *)
(* the rocFFT / HIP runtime calls those operations issue.                  *)
(*                                                                         *)
(* rocFFT and the HIP allocator are external: every call into them takes   *)
(* its outcome from an "oracle" argument that the actions draw with \E.    *)
(* A pointer is modelled by the state of what it points to: NULLP, LIVE    *)
(* (allocated / created) or DEAD (destroyed / freed, i.e. dangling).       *)
(***************************************************************************)
EXTENDS Integers, Sequences, FiniteSets, TLC

VARIABLES plan, res, hist, last

vars == <<plan, res, hist, last>>

(***************************************************************************)
(* Values                                                                  *)
(***************************************************************************)
NULLP == "nullptr"
LIVE == "live"
DEAD == "dangling"

\* the caller holds no handle (never created, or deleted by hipfftDestroy)
NULLH == [handle |-> "nullptr"]

HIPFFT_FORWARD == -1
HIPFFT_BACKWARD == 1

Slots == {"ip_forward", "op_forward", "ip_inverse", "op_inverse"}

SupportedDataTypes ==
    {"HIP_R_16F", "HIP_R_32F", "HIP_R_64F", "HIP_C_16F", "HIP_C_32F", "HIP_C_64F"}

\* hipDataType values the switch of hipfftIOType::init has no case for
UnsupportedDataTypes == {"HIP_R_8I", "HIP_C_8I"}

DataTypes == SupportedDataTypes \cup UnsupportedDataTypes

HipfftTypes ==
    {"HIPFFT_R2C", "HIPFFT_C2R", "HIPFFT_C2C", "HIPFFT_D2Z", "HIPFFT_Z2D", "HIPFFT_Z2Z"}

\* an integer that is no enumerator of hipfftType
HIPFFT_TYPE_INVALID == "hipfftType(0)"

(***************************************************************************)
(* hipfftIOType                                                            *)
(***************************************************************************)
IOType(input, output) == [inputType |-> input, outputType |-> output]

DefaultIOType == IOType("HIP_C_32F", "HIP_C_32F")

\* hipfftIOType::init(hipfftType): [ret, type]; type is unchanged on error
init_type(type) ==
    CASE type = "HIPFFT_R2C" -> [ret |-> "HIPFFT_SUCCESS", type |-> IOType("HIP_R_32F", "HIP_C_32F")]
      [] type = "HIPFFT_C2R" -> [ret |-> "HIPFFT_SUCCESS", type |-> IOType("HIP_C_32F", "HIP_R_32F")]
      [] type = "HIPFFT_C2C" -> [ret |-> "HIPFFT_SUCCESS", type |-> IOType("HIP_C_32F", "HIP_C_32F")]
      [] type = "HIPFFT_D2Z" -> [ret |-> "HIPFFT_SUCCESS", type |-> IOType("HIP_R_64F", "HIP_C_64F")]
      [] type = "HIPFFT_Z2D" -> [ret |-> "HIPFFT_SUCCESS", type |-> IOType("HIP_C_64F", "HIP_R_64F")]
      [] type = "HIPFFT_Z2Z" -> [ret |-> "HIPFFT_SUCCESS", type |-> IOType("HIP_C_64F", "HIP_C_64F")]
      [] OTHER -> [ret |-> "HIPFFT_NOT_IMPLEMENTED", type |-> DefaultIOType]

\* the complex type of the same precision as a supported input type
ComplexOf(input) ==
    CASE input \in {"HIP_R_16F", "HIP_C_16F"} -> "HIP_C_16F"
      [] input \in {"HIP_R_32F", "HIP_C_32F"} -> "HIP_C_32F"
      [] input \in {"HIP_R_64F", "HIP_C_64F"} -> "HIP_C_64F"

\* the real type of the same precision as a supported input type
RealOf(input) ==
    CASE input \in {"HIP_R_16F", "HIP_C_16F"} -> "HIP_R_16F"
      [] input \in {"HIP_R_32F", "HIP_C_32F"} -> "HIP_R_32F"
      [] input \in {"HIP_R_64F", "HIP_C_64F"} -> "HIP_R_64F"

\* init of three types that does not look at the execution type
init_types_anyexec(input, output, exec) ==
    IF input \in {"HIP_R_16F", "HIP_R_32F", "HIP_R_64F"}
    THEN IF output # ComplexOf(input)
         THEN [ret |-> "HIPFFT_INVALID_VALUE", type |-> DefaultIOType]
         ELSE [ret |-> "HIPFFT_SUCCESS", type |-> IOType(input, output)]
    ELSE IF input \in {"HIP_C_16F", "HIP_C_32F", "HIP_C_64F"}
    THEN IF output # ComplexOf(input) /\ output # RealOf(input)
         THEN [ret |-> "HIPFFT_INVALID_VALUE", type |-> DefaultIOType]
         ELSE [ret |-> "HIPFFT_SUCCESS", type |-> IOType(input, output)]
    ELSE [ret |-> "HIPFFT_NOT_IMPLEMENTED", type |-> DefaultIOType]

\* hipfftIOType::init(hipDataType input, hipDataType output, hipDataType exec)
init_types(input, output, exec) ==
    IF input \in {"HIP_R_16F", "HIP_R_32F", "HIP_R_64F"}
    THEN IF output # ComplexOf(input) \/ exec # ComplexOf(input)
         THEN [ret |-> "HIPFFT_INVALID_VALUE", type |-> DefaultIOType]
         ELSE [ret |-> "HIPFFT_SUCCESS", type |-> IOType(input, output)]
    ELSE IF input \in {"HIP_C_16F", "HIP_C_32F", "HIP_C_64F"}
    THEN IF (output # ComplexOf(input) /\ output # RealOf(input)) \/ exec # ComplexOf(input)
         THEN [ret |-> "HIPFFT_INVALID_VALUE", type |-> DefaultIOType]
         ELSE [ret |-> "HIPFFT_SUCCESS", type |-> IOType(input, output)]
    ELSE [ret |-> "HIPFFT_NOT_IMPLEMENTED", type |-> DefaultIOType]

precision(io) ==
    CASE io.inputType \in {"HIP_R_16F", "HIP_C_16F"} -> "rocfft_precision_half"
      [] io.inputType \in {"HIP_R_32F", "HIP_C_32F"} -> "rocfft_precision_single"
      [] io.inputType \in {"HIP_R_64F", "HIP_C_64F"} -> "rocfft_precision_double"

is_real_to_complex(io) == io.inputType \in {"HIP_R_16F", "HIP_R_32F", "HIP_R_64F"}

is_complex_to_real(io) == io.outputType \in {"HIP_R_16F", "HIP_R_32F", "HIP_R_64F"}

is_complex_to_complex(io) == ~is_complex_to_real(io) /\ ~is_real_to_complex(io)

is_forward(t) ==
    t \in {"rocfft_transform_type_complex_forward", "rocfft_transform_type_real_forward"}

\* transform_types that gives every transform both directions
transform_types_both(io) ==
    IF is_real_to_complex(io) \/ is_complex_to_real(io)
    THEN <<"rocfft_transform_type_real_forward", "rocfft_transform_type_real_inverse">>
    ELSE <<"rocfft_transform_type_complex_forward", "rocfft_transform_type_complex_inverse">>

transform_types(io) ==
    IF is_real_to_complex(io) THEN <<"rocfft_transform_type_real_forward">>
    ELSE IF is_complex_to_real(io) THEN <<"rocfft_transform_type_real_inverse">>
    ELSE <<"rocfft_transform_type_complex_forward", "rocfft_transform_type_complex_inverse">>

(***************************************************************************)
(* hipfftHandle_t and the world an operation runs in                       *)
(***************************************************************************)
\* plan->info and the rocfft_execution_info object it points to: the state of
\* the pointer, and the work buffer rocFFT has been told to use:
\*   "none"       no work buffer was ever set
\*   "workBuffer" the buffer plan->workBuffer points to
\*   "stale"      a library buffer that was freed and is no longer plan->workBuffer
\*   "caller"     a buffer given to hipfftSetWorkArea
NoInfo == [ptr |-> NULLP, work_buffer |-> "none"]

NewInfo == [ptr |-> LIVE, work_buffer |-> "none"]

\* a default-constructed hipfftHandle_t
hipfftHandle_t ==
    [type |-> DefaultIOType,
     ip_forward |-> NULLP, op_forward |-> NULLP,
     ip_inverse |-> NULLP, op_inverse |-> NULLP,
     info |-> NoInfo,
     workBuffer |-> NULLP,
     workBufferSize |-> 0,
     autoAllocate |-> TRUE,
     workBufferNeedsFree |-> FALSE,
     load_callback_ptrs |-> NULLP,
     load_callback_data |-> NULLP,
     load_callback_lds_bytes |-> 0,
     store_callback_ptrs |-> NULLP,
     store_callback_data |-> NULLP,
     store_callback_lds_bytes |-> 0,
     scale_factor |-> "1.0"]

\* live objects: hipfftHandle_t structs, execution infos, rocfft plans,
\* rocfft plan descriptions, device buffers from hipMalloc
NoResources == [handles |-> 0, infos |-> 0, plans |-> 0, descs |-> 0, bufs |-> 0]

\* a world: the handle an operation works on (h), the live objects (res) and
\* the rocFFT / HIP calls issued so far by the running operation (log)
World(h, r) == [h |-> h, res |-> r, log |-> <<>>]

Call(w, c) == [w EXCEPT !.log = Append(@, c)]

\* what a call gives: the world it leaves, the code it returns and what it
\* stored in *workSize, -1 when it stored nothing
RetWS(w, code, ws) == [w |-> w, ret |-> code, workSize |-> ws]

Ret(w, code) == [w |-> w, ret |-> code, workSize |-> -1]

\* the calls of a log to one function
CallsTo(log, f) == {i \in 1..Len(log) : log[i][1] = f}

(***************************************************************************)
(* rocFFT and HIP runtime calls                                            *)
(***************************************************************************)
\* the four slots as fields of the handle
SlotsOf(h) == [s \in Slots |-> h[s]]

\* new hipfftHandle_t
NewStruct(w) == [w EXCEPT !.res.handles = @ + 1]

\* rocfft_execution_info_create(&h->info) on a new struct st
rocfft_execution_info_create(w, st, ok) ==
    LET w1 == Call(w, <<"rocfft_execution_info_create", IF ok THEN "success" ELSE "fail">>)
    IN IF ok
       THEN [w |-> [w1 EXCEPT !.res.infos = @ + 1], st |-> [st EXCEPT !.info = NewInfo]]
       ELSE [w |-> w1, st |-> st]

\* rocfft_plan_destroy(plan->slot) succeeding: the pointer is kept, the plan
\* it points to is gone
rocfft_plan_destroy(w, slot) ==
    LET was == w.h[slot]
        w1 == Call(w, <<"rocfft_plan_destroy", slot, was>>)
    IN [w1 EXCEPT !.h[slot] = DEAD,
                  !.res.plans = IF was = LIVE THEN @ - 1 ELSE @]

\* hipFree(plan->workBuffer) succeeding
hipFree(w) ==
    LET was == w.h.workBuffer
        w1 == Call(w, <<"hipFree", was>>)
    IN IF was = NULLP THEN w1
       ELSE [w1 EXCEPT !.h.workBuffer = DEAD,
                       !.res.bufs = IF was = LIVE THEN @ - 1 ELSE @]

\* hipMalloc(&plan->workBuffer, size) succeeding: a fresh buffer; what the
\* execution info had bound under the old pointer is now another buffer
hipMalloc(w, size) ==
    LET w1 == Call(w, <<"hipMalloc", size, "success">>)
    IN [w1 EXCEPT !.h.workBuffer = LIVE,
                  !.res.bufs = @ + 1,
                  !.h.info.work_buffer = IF @ = "workBuffer" THEN "stale" ELSE @]

\* rocfft_execution_info_set_work_buffer(plan->info, buffer, size) succeeding;
\* which is "workBuffer" (plan->workBuffer) or "caller" (a work area)
rocfft_execution_info_set_work_buffer(w, which, size) ==
    [Call(w, <<"rocfft_execution_info_set_work_buffer", which, size, "success">>)
        EXCEPT !.h.info.work_buffer = which]

(***************************************************************************)
(* hipfftCreate, hipfftDestroy                                             *)
(***************************************************************************)
\* hipfftCreate(&plan): infoOK is rocfft_execution_info_create's outcome.
\* On failure the new struct is neither deleted nor handed out.
hipfftCreate(w, infoOK) ==
    LET checked(c) == IF ~infoOK THEN Ret(c.w, "HIPFFT_INVALID_VALUE")
                      ELSE Ret([c.w EXCEPT !.h = c.st], "HIPFFT_SUCCESS")
    IN checked(rocfft_execution_info_create(NewStruct(w), hipfftHandle_t, infoOK))

\* where hipfftDestroy's backend calls can fail
DestroyFailPoints == {"none", "ip_forward", "op_forward", "ip_inverse", "op_inverse", "info"}

\* one "if(plan->slot != nullptr) ROC_FFT_CHECK_INVALID_VALUE(rocfft_plan_destroy(..))"
\* of hipfftDestroy; st.ret = "running" until the function has returned
DestroySlot(st, slot, fail) ==
    IF st.ret # "running" \/ st.w.h[slot] = NULLP THEN st
    ELSE IF fail = slot
         THEN Ret(Call(st.w, <<"rocfft_plan_destroy", slot, st.w.h[slot], "fail">>),
                  "HIPFFT_INVALID_VALUE")
         ELSE Ret(rocfft_plan_destroy(st.w, slot), "running")

\* hipfftDestroy(plan); fail names the backend destroy call that fails
hipfftDestroy(w, fail) ==
    IF w.h = NULLH THEN Ret(w, "HIPFFT_SUCCESS")
    ELSE LET \* "if(plan->workBufferNeedsFree) hipFree(plan->workBuffer);"
             freed(w4) == IF w4.h.workBufferNeedsFree THEN hipFree(w4) ELSE w4
             \* rocfft_execution_info_destroy(plan->info); delete plan;
             info(w5) ==
                 IF fail = "info"
                 THEN Ret(Call(w5, <<"rocfft_execution_info_destroy", "fail">>),
                          "HIPFFT_INVALID_VALUE")
                 ELSE Ret([Call(w5, <<"rocfft_execution_info_destroy", "success">>)
                              EXCEPT !.h = NULLH,
                                     !.res.infos = @ - 1,
                                     !.res.handles = @ - 1],
                          "HIPFFT_SUCCESS")
             rest(s4) == IF s4.ret # "running" THEN s4 ELSE info(freed(s4.w))
         IN rest(DestroySlot(
                     DestroySlot(
                         DestroySlot(
                             DestroySlot(Ret(w, "running"), "ip_forward", fail),
                             "op_forward", fail),
                         "ip_inverse", fail),
                     "op_inverse", fail))

(***************************************************************************)
(* Execution dispatch                                                      *)
(***************************************************************************)
\* get_exec_plan with the placement test inverted for the inverse plans
get_exec_plan_swapped(inplace, direction) ==
    CASE direction = HIPFFT_FORWARD -> IF inplace THEN "ip_forward" ELSE "op_forward"
      [] direction = HIPFFT_BACKWARD -> IF inplace THEN "op_inverse" ELSE "ip_inverse"
      [] OTHER -> "none"

\* get_exec_plan: the slot whose plan is returned, "none" for nullptr
get_exec_plan(inplace, direction) ==
    CASE direction = HIPFFT_FORWARD -> IF inplace THEN "ip_forward" ELSE "op_forward"
      [] direction = HIPFFT_BACKWARD -> IF inplace THEN "ip_inverse" ELSE "op_inverse"
      [] OTHER -> "none"

\* the rocfft_plan found in a slot ("none": nullptr)
PlanIn(h, slot) == IF slot = "none" THEN NULLP ELSE h[slot]

\* hipfftExec(rplan, rinfo, idata, odata); execOK is rocfft_execute's outcome
hipfftExec(w, slot, idata, odata, execOK) ==
    IF PlanIn(w.h, slot) = NULLP THEN Ret(w, "HIPFFT_EXEC_FAILED")
    ELSE IF idata = NULLP \/ odata = NULLP THEN Ret(w, "HIPFFT_EXEC_FAILED")
    ELSE Ret(Call(w, <<"rocfft_execute", slot, w.h[slot],
                       IF execOK THEN "success" ELSE "fail">>),
             IF execOK THEN "HIPFFT_SUCCESS" ELSE "HIPFFT_EXEC_FAILED")

hipfftExecForward(w, idata, odata, execOK) ==
    hipfftExec(w, get_exec_plan(idata = odata, HIPFFT_FORWARD), idata, odata, execOK)

hipfftExecBackward(w, idata, odata, execOK) ==
    hipfftExec(w, get_exec_plan(idata = odata, HIPFFT_BACKWARD), idata, odata, execOK)

\* hipfftExecC2C and hipfftExecZ2Z (the same body)
hipfftExecC2C(w, idata, odata, direction, execOK) ==
    CASE direction = HIPFFT_FORWARD -> hipfftExecForward(w, idata, odata, execOK)
      [] direction = HIPFFT_BACKWARD -> hipfftExecBackward(w, idata, odata, execOK)
      [] OTHER -> Ret(w, "HIPFFT_EXEC_FAILED")

\* hipfftExecR2C and hipfftExecD2Z
hipfftExecR2C(w, idata, odata, execOK) == hipfftExecForward(w, idata, odata, execOK)

\* hipfftExecC2R and hipfftExecZ2D
hipfftExecC2R(w, idata, odata, execOK) == hipfftExecBackward(w, idata, odata, execOK)

\* the slot hipfftXtExec picks ("none": plan_ptr stays nullptr)
XtExecSlot(h, inplace, direction) ==
    IF is_real_to_complex(h.type) \/ direction = HIPFFT_FORWARD
    THEN IF inplace THEN "ip_forward" ELSE "op_forward"
    ELSE IF is_complex_to_real(h.type) \/ direction = HIPFFT_BACKWARD
    THEN IF inplace THEN "ip_inverse" ELSE "op_inverse"
    ELSE "none"

hipfftXtExec(w, input, output, direction, execOK) ==
    LET slot == XtExecSlot(w.h, input = output, direction)
    IN IF PlanIn(w.h, slot) = NULLP THEN Ret(w, "HIPFFT_INTERNAL_ERROR")
       ELSE hipfftExec(w, slot, input, output, execOK)

(***************************************************************************)
(* Data layout of the four plan descriptions                               *)
(***************************************************************************)
Layout(is, idist, os, odist) ==
    [inStrides |-> is, inDist |-> idist, outStrides |-> os, outDist |-> odist]

\* the loop "for(i = 1; i < dim; i++) { i_strides[i] = idist; idist *= lengths[i];
\* o_strides[i] = odist; odist *= lengths[i]; }" from C index i on
\* (C index i is position i + 1 of a sequence)
RECURSIVE StrideLoop(_, _, _, _, _, _, _)
StrideLoop(is, os, idist, odist, lengths, i, dim) ==
    IF i >= dim THEN Layout(is, idist, os, odist)
    ELSE StrideLoop([is EXCEPT ![i + 1] = idist], [os EXCEPT ![i + 1] = odist],
                    idist * lengths[i + 1], odist * lengths[i + 1], lengths, i + 1, dim)

\* "dist = lengths[0]; for(i = 1; i < dim; i++) dist *= lengths[i];"
RECURSIVE ProductFrom(_, _, _)
ProductFrom(lengths, i, dim) ==
    IF i >= dim THEN 1 ELSE lengths[i + 1] * ProductFrom(lengths, i + 1, dim)

\* the distance without the loop over the higher dimensions
PlainDist_first(lengths, dim) == lengths[1]

PlainDist(lengths, dim) == lengths[1] * ProductFrom(lengths, 1, dim)

\* the layout given to rocfft_plan_description_set_data_layout for each of the
\* four descriptions, "unset" for a description that gets none
DescLayouts(desc, dim, lengths, re_calc_strides_in_desc) ==
    LET given == Layout(desc.inStrides, desc.inDist, desc.outStrides, desc.outDist)
        half == 1 + lengths[1] \div 2
    IN IF ~re_calc_strides_in_desc THEN [s \in Slots |-> given]
       ELSE IF desc.inArrayType = "rocfft_array_type_real"
       THEN LET ip == StrideLoop(desc.inStrides, desc.outStrides, 2 * half, half, lengths, 1, dim)
                op == StrideLoop(ip.inStrides, ip.outStrides, lengths[1], half, lengths, 1, dim)
            IN [s \in Slots |-> CASE s = "ip_forward" -> ip
                                  [] s = "op_forward" -> op
                                  [] OTHER -> "unset"]
       ELSE IF desc.outArrayType = "rocfft_array_type_real"
       THEN LET ip == StrideLoop(desc.inStrides, desc.outStrides, half, 2 * half, lengths, 1, dim)
                op == StrideLoop(ip.inStrides, ip.outStrides, half, lengths[1], lengths, 1, dim)
            IN [s \in Slots |-> CASE s = "ip_inverse" -> ip
                                  [] s = "op_inverse" -> op
                                  [] OTHER -> "unset"]
       ELSE LET dist == PlainDist(lengths, dim)
            IN [s \in Slots |-> Layout(desc.inStrides, dist, desc.outStrides, dist)]

\* the descriptions that get a layout, in the order the calls are made
LayoutOrder(desc, re_calc_strides_in_desc) ==
    IF re_calc_strides_in_desc /\ desc.inArrayType = "rocfft_array_type_real"
    THEN <<"ip_forward", "op_forward">>
    ELSE IF re_calc_strides_in_desc /\ desc.outArrayType = "rocfft_array_type_real"
    THEN <<"ip_inverse", "op_inverse">>
    ELSE <<"ip_forward", "op_forward", "ip_inverse", "op_inverse">>

(***************************************************************************)
(* hipfftMakePlan_internal                                                 *)
(***************************************************************************)
\* where hipfftMakePlan_internal's checked calls (other than plan creation)
\* can fail; a failed hipMalloc may leave plan->workBuffer as it was or null
MakeFailPoints ==
    {"none", "set_data_layout", "get_work_buffer_size", "hipFree",
     "hipMalloc_keep", "hipMalloc_null", "set_work_buffer"}

\* the slots plan creation is attempted for, in order
CreateOrder(iotype) ==
    LET ts == transform_types(iotype)
        pair(t) == IF is_forward(t) THEN <<"ip_forward", "op_forward">>
                   ELSE <<"ip_inverse", "op_inverse">>
    IN IF Len(ts) = 1 THEN pair(ts[1]) ELSE pair(ts[1]) \o pair(ts[2])

\* ROC_FFT_CHECK_PLAN_CREATE(plan->slot, plans_created, ...): rocfft_plan_create
\* stores a new plan in the slot; a plan that failed to build is destroyed
\* and the slot set to nullptr.  d is the description the plan is created with.
ROC_FFT_CHECK_PLAN_CREATE(w, slot, ok, d) ==
    IF ok
    THEN [Call(w, <<"rocfft_plan_create", slot, "success", d>>)
            EXCEPT !.h[slot] = LIVE, !.res.plans = @ + 1]
    ELSE [Call(Call(w, <<"rocfft_plan_create", slot, "fail", d>>),
               <<"rocfft_plan_destroy", slot, LIVE>>)
            EXCEPT !.h[slot] = NULLP]

\* a creation loop that gives up at the first plan that fails to build
RECURSIVE CreateLoop_stops(_, _, _, _, _)
CreateLoop_stops(w, order, i, create, d) ==
    IF i > Len(order) THEN w
    ELSE IF ~create[order[i]]
    THEN ROC_FFT_CHECK_PLAN_CREATE(w, order[i], FALSE, d[order[i]])
    ELSE CreateLoop_stops(ROC_FFT_CHECK_PLAN_CREATE(w, order[i], TRUE, d[order[i]]),
                          order, i + 1, create, d)

RECURSIVE CreateLoop(_, _, _, _, _)
CreateLoop(w, order, i, create, d) ==
    IF i > Len(order) THEN w
    ELSE CreateLoop(ROC_FFT_CHECK_PLAN_CREATE(w, order[i], create[order[i]], d[order[i]]),
                    order, i + 1, create, d)

\* plans_created after the loop
PlansCreated(order, create) == Cardinality({i \in 1..Len(order) : create[order[i]]})

RECURSIVE LogLayouts(_, _, _, _)
LogLayouts(w, order, i, lay) ==
    IF i > Len(order) THEN w
    ELSE LogLayouts(Call(w, <<"rocfft_plan_description_set_data_layout", order[i],
                              lay[order[i]], "success">>),
                    order, i + 1, lay)

\* a query loop over every populated slot, whatever the transform
QueryOrder_all(h, iotype) ==
    SelectSeq(<<"ip_forward", "op_forward", "ip_inverse", "op_inverse">>,
              LAMBDA s : h[s] # NULLP)

\* the slots asked for their work buffer size, in order
QueryOrder(h, iotype) ==
    LET fwd == IF ~is_complex_to_real(iotype) THEN <<"ip_forward", "op_forward">> ELSE <<>>
        inv == IF ~is_real_to_complex(iotype) THEN <<"ip_inverse", "op_inverse">> ELSE <<>>
    IN SelectSeq(fwd \o inv, LAMBDA s : h[s] # NULLP)

RECURSIVE MaxReq(_, _, _)
MaxReq(order, i, req) ==
    IF i > Len(order) THEN 0
    ELSE LET m == MaxReq(order, i + 1, req)
         IN IF req[order[i]] > m THEN req[order[i]] ELSE m

RECURSIVE LogQueries(_, _, _, _)
LogQueries(w, order, i, req) ==
    IF i > Len(order) THEN w
    ELSE LogQueries(Call(w, <<"rocfft_plan_get_work_buffer_size", order[i],
                              req[order[i]], "success">>),
                    order, i + 1, req)

\* a work buffer part that allocates whenever a buffer is needed, without
\* looking at plan->autoAllocate or at the buffer the plan has
AllocateWorkBuffer_always(w, workBufferSize, fail) ==
    IF workBufferSize = 0 THEN Ret(w, "running")
    ELSE Ret(rocfft_execution_info_set_work_buffer(
                 [hipMalloc(w, workBufferSize) EXCEPT !.h.workBufferNeedsFree = TRUE],
                 "workBuffer", workBufferSize),
             "running")

\* the work buffer part: "if(workBufferSize > 0) { if(plan->autoAllocate) ... }"
\* the result's ret is "running" when the function goes on
AllocateWorkBuffer(w, workBufferSize, fail) ==
    LET mustFree == w.h.workBuffer # NULLP /\ w.h.workBufferNeedsFree
        \* rocfft_execution_info_set_work_buffer(plan->info, plan->workBuffer, ..)
        bound(w2) ==
            IF fail = "set_work_buffer"
            THEN Ret(Call(w2, <<"rocfft_execution_info_set_work_buffer", "workBuffer",
                                workBufferSize, "fail">>),
                     "HIPFFT_INVALID_VALUE")
            ELSE Ret(rocfft_execution_info_set_work_buffer(w2, "workBuffer", workBufferSize),
                     "running")
        \* hipMalloc(&plan->workBuffer, workBufferSize); plan->workBufferNeedsFree = true
        allocated(w1) ==
            IF fail = "hipMalloc_keep"
            THEN Ret(Call(w1, <<"hipMalloc", workBufferSize, "fail">>), "HIPFFT_ALLOC_FAILED")
            ELSE IF fail = "hipMalloc_null"
            THEN Ret([Call(w1, <<"hipMalloc", workBufferSize, "fail">>)
                         EXCEPT !.h.workBuffer = NULLP,
                                !.h.info.work_buffer = IF @ = "workBuffer" THEN "stale" ELSE @],
                     "HIPFFT_ALLOC_FAILED")
            ELSE bound([hipMalloc(w1, workBufferSize) EXCEPT !.h.workBufferNeedsFree = TRUE])
    IN IF ~(workBufferSize > 0 /\ w.h.autoAllocate) THEN Ret(w, "running")
       ELSE IF mustFree /\ fail = "hipFree"
       THEN Ret(Call(w, <<"hipFree", w.h.workBuffer, "fail">>), "HIPFFT_ALLOC_FAILED")
       ELSE allocated(IF mustFree THEN hipFree(w) ELSE w)

\* desc == nullptr
NoDesc == [desc |-> NULLP]

\* the rocFFT and HIP calls of hipfftMakePlan_internal, from the creation of the
\* plan descriptions to the return, given what the function computed: hasDesc
\* says desc != nullptr, lay is the layout of each description and lorder the
\* descriptions that get one, in the order of the calls
MakePlanCalls(w, iotype, hasDesc, lay, lorder, wantWorkSize, o) ==
    LET scaled == w.h.scale_factor # "1.0"
        haveDescs == hasDesc \/ scaled
        corder == CreateOrder(iotype)
        \* rocfft_plan_description_create of the four descriptions
        described(x) ==
            [Call(x, <<"rocfft_plan_description_create", 4>>) EXCEPT !.res.descs = @ + 4]
        \* "if(plan->scale_factor != 1.0)", x being the world with the descriptions
        scale(x) ==
            IF scaled
            THEN Call(x, <<"rocfft_plan_description_set_scale_factor", 4, w.h.scale_factor>>)
            ELSE x
        \* the description each slot's plan is created with
        d == [s \in Slots |->
                 IF haveDescs THEN [layout |-> lay[s], scale |-> w.h.scale_factor]
                 ELSE NoDesc]
        \* a is what the work buffer part gave: store the sizes, destroy the
        \* descriptions, return
        finish(a, workBufferSize) ==
            IF a.ret # "running" THEN RetWS(a.w, a.ret, -1)
            ELSE RetWS([Call([a.w EXCEPT !.h.workBufferSize = workBufferSize],
                             <<"rocfft_plan_description_destroy", 4>>)
                           EXCEPT !.res.descs = IF haveDescs THEN @ - 4 ELSE @],
                       "HIPFFT_SUCCESS",
                       IF wantWorkSize THEN workBufferSize ELSE -1)
        \* the work buffer size queries of the slots qorder, and what follows
        sized(w5, qorder) ==
            IF o.fail = "get_work_buffer_size" /\ Len(qorder) > 0
            THEN RetWS(Call(w5, <<"rocfft_plan_get_work_buffer_size", qorder[1], 0, "fail">>),
                       "HIPFFT_INVALID_VALUE", -1)
            ELSE finish(AllocateWorkBuffer(LogQueries(w5, qorder, 1, o.req),
                                           MaxReq(qorder, 1, o.req), o.fail),
                        MaxReq(qorder, 1, o.req))
        \* w4 is the world after the plan creation loop
        created(w4) ==
            IF PlansCreated(corder, o.create) = 0
            THEN RetWS(w4, "HIPFFT_PARSE_ERROR", -1)
            ELSE sized([w4 EXCEPT !.h.type = iotype], QueryOrder(w4.h, iotype))
    IN IF hasDesc /\ o.fail = "set_data_layout"
       THEN RetWS(Call(described(w),
                       <<"rocfft_plan_description_set_data_layout", lorder[1],
                         lay[lorder[1]], "fail">>),
                  "HIPFFT_INVALID_VALUE", -1)
       ELSE created(CreateLoop(scale(IF hasDesc THEN LogLayouts(described(w), lorder, 1, lay)
                                     ELSE IF scaled THEN described(w)
                                     ELSE w),
                               corder, 1, o.create, d))

\* hipfftMakePlan_internal(plan, dim, lengths, iotype, number_of_transforms, desc,
\* workSize, re_calc_strides_in_desc).  desc is NoDesc or a hipfft_plan_description_t,
\* wantWorkSize says workSize != nullptr, and o is the backend's behaviour:
\* o.create[slot] whether rocfft_plan_create succeeds for the slot, o.req[slot]
\* the work buffer size that plan reports, o.fail the other call that fails.
\* The result's workSize is -1 when *workSize was not written.
hipfftMakePlan_internal(w, dim, lengths, iotype, number_of_transforms, desc, wantWorkSize, re_calc_strides_in_desc, o) ==
    MakePlanCalls(w, iotype, desc # NoDesc,
                  IF desc # NoDesc THEN DescLayouts(desc, dim, lengths, re_calc_strides_in_desc)
                  ELSE [s \in Slots |-> "unset"],
                  IF desc # NoDesc THEN LayoutOrder(desc, re_calc_strides_in_desc) ELSE <<>>,
                  wantWorkSize, o)

(***************************************************************************)
(* hipfftMakePlan1d / 2d / 3d / Many / Many64, hipfftXtMakePlanMany        *)
(***************************************************************************)
hipfftMakePlan1d(w, nx, type, batch, wantWorkSize, o) ==
    IF nx < 0 \/ batch < 0 THEN RetWS(w, "HIPFFT_INVALID_SIZE", -1)
    ELSE LET io == init_type(type)
         IN IF io.ret # "HIPFFT_SUCCESS" THEN RetWS(w, io.ret, -1)
            ELSE hipfftMakePlan_internal(w, 1, <<nx>>, io.type, batch, NoDesc,
                                         wantWorkSize, FALSE, o)

\* hipfftMakePlan2d reporting a negative size as a bad value
hipfftMakePlan2d_value(w, nx, ny, type, wantWorkSize, o) ==
    IF nx < 0 \/ ny < 0 THEN RetWS(w, "HIPFFT_INVALID_VALUE", -1)
    ELSE LET io == init_type(type)
         IN IF io.ret # "HIPFFT_SUCCESS" THEN RetWS(w, io.ret, -1)
            ELSE hipfftMakePlan_internal(w, 2, <<ny, nx>>, io.type, 1, NoDesc,
                                         wantWorkSize, FALSE, o)

hipfftMakePlan2d(w, nx, ny, type, wantWorkSize, o) ==
    IF nx < 0 \/ ny < 0 THEN RetWS(w, "HIPFFT_INVALID_SIZE", -1)
    ELSE LET io == init_type(type)
         IN IF io.ret # "HIPFFT_SUCCESS" THEN RetWS(w, io.ret, -1)
            ELSE hipfftMakePlan_internal(w, 2, <<ny, nx>>, io.type, 1, NoDesc,
                                         wantWorkSize, FALSE, o)

hipfftMakePlan3d(w, nx, ny, nz, type, wantWorkSize, o) ==
    IF nx < 0 \/ ny < 0 \/ nz < 0 THEN RetWS(w, "HIPFFT_INVALID_SIZE", -1)
    ELSE LET io == init_type(type)
         IN IF io.ret # "HIPFFT_SUCCESS" THEN RetWS(w, io.ret, -1)
            ELSE hipfftMakePlan_internal(w, 3, <<nz, ny, nx>>, io.type, 1, NoDesc,
                                         wantWorkSize, FALSE, o)

\* an int* / long long* argument: nullptr, or an array of numbers
NullArray == [null |-> TRUE, at |-> <<>>]

Array(s) == [null |-> FALSE, at |-> s]

\* the arguments (rank, n, inembed, istride, idist, onembed, ostride, odist, batch)
\* of the "many" operations; n is a sequence of at least rank numbers, inembed
\* and onembed are NullArray or arrays of at least rank numbers
ManyArgs(rank, n, inembed, istride, idist, onembed, ostride, odist, batch) ==
    [rank |-> rank, n |-> n, inembed |-> inembed, istride |-> istride, idist |-> idist,
     onembed |-> onembed, ostride |-> ostride, odist |-> odist, batch |-> batch]

\* any_of that looks at the first element only
AnyNegative_first(ptr, rank) == rank >= 1 /\ ptr[1] < 0

\* std::any_of(ptr, ptr + rank, [](T val) { return val < 0; })
AnyNegative(ptr, rank) == \E i \in 1..rank : ptr[i] < 0

\* the embed test with its second half missing
EmbedMismatch_oneway(inembed, onembed) == ~inembed.null /\ onembed.null

\* "(inembed != nullptr && onembed == nullptr) || (inembed == nullptr && onembed != nullptr)"
EmbedMismatch(inembed, onembed) ==
    (~inembed.null /\ onembed.null) \/ (inembed.null /\ ~onembed.null)

\* "for(i = 0; i < rank; i++) lengths[i] = n[rank - 1 - i];" into size_t lengths[3];
\* an entry that is not written holds what was in memory (uninit)
ReversedLengths(n, rank, uninit) ==
    [j \in 1..3 |-> IF j <= rank THEN n[rank + 1 - j] ELSE uninit]

\* i_strides / o_strides of hipfftMakePlanMany_internal
RECURSIVE StridesFrom(_, _, _, _)
StridesFrom(strides, lens, i, rank) ==
    IF i >= rank THEN strides
    ELSE StridesFrom([strides EXCEPT ![i + 1] = lens[i] * strides[i]], lens, i + 1, rank)

\* strides that start from the caller's stride whether or not there is an embed
ManyStrides_strided(lengths, embed, stride, rank, uninit) ==
    IF embed.null THEN StridesFrom(<<stride, 1, 1>>, lengths, 1, rank)
    ELSE StridesFrom(<<stride, 1, 1>>, ReversedLengths(embed.at, rank, uninit), 1, rank)

ManyStrides(lengths, embed, stride, rank, uninit) ==
    LET dflt == StridesFrom(<<1, 1, 1>>, lengths, 1, rank)
    IN IF embed.null THEN dflt
       ELSE StridesFrom([dflt EXCEPT ![1] = stride],
                        ReversedLengths(embed.at, rank, uninit), 1, rank)

\* "for(i = 0; i < rank; i++) desc.inStrides[i] = i_strides[i];" over {0, 0, 0}
DescStrides(strides, rank) == [j \in 1..3 |-> IF j <= rank THEN strides[j] ELSE 0]

\* hipfftMakePlanMany_internal<T>(plan, rank, n, ..., type, batch, workSize)
hipfftMakePlanMany_internal(w, a, type, wantWorkSize, o) ==
    IF EmbedMismatch(a.inembed, a.onembed)
       \/ a.rank < 0 \/ a.istride < 0 \/ a.idist < 0 \/ a.ostride < 0 \/ a.odist < 0
       \/ AnyNegative(a.n, a.rank)
    THEN RetWS(w, "HIPFFT_INVALID_VALUE", -1)
    ELSE IF (~a.inembed.null /\ AnyNegative(a.inembed.at, a.rank))
            \/ (~a.onembed.null /\ AnyNegative(a.onembed.at, a.rank))
    THEN RetWS(w, "HIPFFT_INVALID_SIZE", -1)
    ELSE IF a.batch < 0 THEN RetWS(w, "HIPFFT_INVALID_SIZE", -1)
    ELSE IF a.rank > 3
    THEN \* "lengths[i] = n[rank - 1 - i]" and the stride loops run to i = rank - 1
         \* over arrays of 3: they write past lengths[2]; what the call does
         \* from there on is undefined, o.ub is what it comes to
         RetWS(Call(w, <<"write past the end", "lengths", a.rank - 1>>), o.ub, -1)
    ELSE
    LET lengths == ReversedLengths(a.n, a.rank, o.uninit)
        in_array_type ==
            IF is_real_to_complex(type) THEN "rocfft_array_type_real"
            ELSE IF is_complex_to_real(type) THEN "rocfft_array_type_hermitian_interleaved"
            ELSE "rocfft_array_type_complex_interleaved"
        out_array_type ==
            IF is_real_to_complex(type) THEN "rocfft_array_type_hermitian_interleaved"
            ELSE IF is_complex_to_real(type) THEN "rocfft_array_type_real"
            ELSE "rocfft_array_type_complex_interleaved"
        re_calc_strides_in_desc == a.inembed.null \/ a.onembed.null
        desc == [inArrayType |-> in_array_type,
                 outArrayType |-> out_array_type,
                 inStrides |-> DescStrides(
                     ManyStrides(lengths, a.inembed, a.istride, a.rank, o.uninit), a.rank),
                 outStrides |-> DescStrides(
                     ManyStrides(lengths, a.onembed, a.ostride, a.rank, o.uninit), a.rank),
                 inDist |-> a.idist,
                 outDist |-> a.odist]
    IN hipfftMakePlan_internal(w, a.rank, lengths, type, a.batch, desc, wantWorkSize,
                               re_calc_strides_in_desc, o)

hipfftMakePlanMany(w, a, type, wantWorkSize, o) ==
    LET io == init_type(type)
    IN IF io.ret # "HIPFFT_SUCCESS" THEN RetWS(w, io.ret, -1)
       ELSE hipfftMakePlanMany_internal(w, a, io.type, wantWorkSize, o)

hipfftMakePlanMany64(w, a, type, wantWorkSize, o) ==
    LET io == init_type(type)
    IN IF io.ret # "HIPFFT_SUCCESS" THEN RetWS(w, io.ret, -1)
       ELSE hipfftMakePlanMany_internal(w, a, io.type, wantWorkSize, o)

\* hipfftXtMakePlanMany; t is <<inputtype, outputtype, executiontype>>
hipfftXtMakePlanMany(w, a, t, wantWorkSize, o) ==
    LET io == init_types(t[1], t[2], t[3])
    IN IF io.ret # "HIPFFT_SUCCESS" THEN RetWS(w, io.ret, -1)
       ELSE hipfftMakePlanMany_internal(w, a, io.type, wantWorkSize, o)

(***************************************************************************)
(* hipfftPlanMany / Many64, hipfftGetSize*, hipfftXtGetSizeMany,           *)
(* hipfftEstimate*                                                         *)
(***************************************************************************)
\* a local "hipfftHandle p;" that nothing has written yet
UNINIT == [handle |-> "uninitialized"]

\* HIP_FFT_CHECK_AND_RETURN(F(x)): "auto code = ret; if(code != HIPFFT_SUCCESS)
\* return ret;" evaluates its argument a second time when the first evaluation
\* failed, and returns what the second gives.  first and second are the
\* results of the two evaluations, the second made in the world the first left.
HIP_FFT_CHECK_AND_RETURN(first, second) ==
    IF first.ret = "HIPFFT_SUCCESS" THEN [r |-> first, returned |-> FALSE]
    ELSE [r |-> second, returned |-> TRUE]

\* return from a function that worked on a local handle: the caller's handle is
\* what it was, the objects and the calls are those of the function
Leave(w, r, ret, ws) == RetWS([r.w EXCEPT !.h = w.h], ret, ws)

\* "hipfftHandle p; HIP_FFT_CHECK_AND_RETURN(hipfftCreate(&p));" where p0 is what
\* p holds before and oks the outcomes of rocfft_execution_info_create in the
\* two evaluations
CreateOwn(w, p0, oks) ==
    LET again(first) == HIP_FFT_CHECK_AND_RETURN(first, hipfftCreate(first.w, oks[2]))
    IN again(hipfftCreate([w EXCEPT !.h = p0], oks[1]))

\* "HIP_FFT_CHECK_AND_RETURN(hipfftDestroy(p)); return HIPFFT_SUCCESS;" in the
\* world x, with *workSize holding ws
DestroyOwn(w, x, ws, g) ==
    LET again(first) ==
            HIP_FFT_CHECK_AND_RETURN(first, hipfftDestroy(first.w, g.destroy[2]))
        leave(d) == Leave(w, d.r, IF d.returned THEN d.r.ret ELSE "HIPFFT_SUCCESS", ws)
    IN leave(again(hipfftDestroy(x, g.destroy[1])))

\* the rest of hipfftGetSize1d / 2d / 3d and hipfftXtGetSizeMany after the
\* make-plan under HIP_FFT_CHECK_AND_RETURN gave m
GetSizeBody(w, m, g) ==
    IF m.returned THEN Leave(w, m.r, m.r.ret, m.r.workSize)
    ELSE DestroyOwn(w, m.r.w, m.r.workSize, g)

\* g.create, g.make and g.destroy are the pairs of backend behaviours in the
\* two evaluations of the create, make-plan and destroy steps
hipfftGetSize1d(w, nx, type, batch, wantWorkSize, g) ==
    IF nx < 0 \/ batch < 0 THEN RetWS(w, "HIPFFT_INVALID_SIZE", -1)
    ELSE LET c == CreateOwn(w, UNINIT, g.create)
             again(first) ==
                 HIP_FFT_CHECK_AND_RETURN(
                     first, hipfftMakePlan1d(first.w, nx, type, batch, wantWorkSize, g.make[2]))
         IN IF c.returned THEN Leave(w, c.r, c.r.ret, -1)
            ELSE GetSizeBody(
                     w, again(hipfftMakePlan1d(c.r.w, nx, type, batch, wantWorkSize, g.make[1])),
                     g)

hipfftGetSize2d(w, nx, ny, type, wantWorkSize, g) ==
    IF nx < 0 \/ ny < 0 THEN RetWS(w, "HIPFFT_INVALID_SIZE", -1)
    ELSE LET c == CreateOwn(w, UNINIT, g.create)
             again(first) ==
                 HIP_FFT_CHECK_AND_RETURN(
                     first, hipfftMakePlan2d(first.w, nx, ny, type, wantWorkSize, g.make[2]))
         IN IF c.returned THEN Leave(w, c.r, c.r.ret, -1)
            ELSE GetSizeBody(
                     w, again(hipfftMakePlan2d(c.r.w, nx, ny, type, wantWorkSize, g.make[1])),
                     g)

hipfftGetSize3d(w, nx, ny, nz, type, wantWorkSize, g) ==
    IF nx < 0 \/ ny < 0 \/ nz < 0 THEN RetWS(w, "HIPFFT_INVALID_SIZE", -1)
    ELSE LET c == CreateOwn(w, UNINIT, g.create)
             again(first) ==
                 HIP_FFT_CHECK_AND_RETURN(
                     first,
                     hipfftMakePlan3d(first.w, nx, ny, nz, type, wantWorkSize, g.make[2]))
         IN IF c.returned THEN Leave(w, c.r, c.r.ret, -1)
            ELSE GetSizeBody(
                     w,
                     again(hipfftMakePlan3d(c.r.w, nx, ny, nz, type, wantWorkSize, g.make[1])),
                     g)

hipfftXtGetSizeMany(w, a, t, wantWorkSize, g) ==
    LET io == init_types(t[1], t[2], t[3])
        c == CreateOwn(w, UNINIT, g.create)
        again(first) ==
            HIP_FFT_CHECK_AND_RETURN(
                first,
                hipfftMakePlanMany_internal(first.w, a, io.type, wantWorkSize, g.make[2]))
    IN IF io.ret # "HIPFFT_SUCCESS" THEN RetWS(w, io.ret, -1)
       ELSE IF c.returned THEN Leave(w, c.r, c.r.ret, -1)
       ELSE GetSizeBody(
                w,
                again(hipfftMakePlanMany_internal(c.r.w, a, io.type, wantWorkSize, g.make[1])),
                g)

\* hipfftPlanMany(&p, ...): w.h is what *plan holds; gp.create the pair of
\* outcomes of rocfft_execution_info_create, gp.make the behaviour of the
\* make-plan.  *plan is written only when the first hipfftCreate succeeded.
hipfftPlanMany(w, a, type, gp) ==
    LET c == CreateOwn(w, NULLH, gp.create)
    IN IF c.returned THEN Leave(w, c.r, c.r.ret, -1)
       ELSE hipfftMakePlanMany(c.r.w, a, type, FALSE, gp.make)

hipfftPlanMany64(w, a, type, gp) ==
    LET c == CreateOwn(w, NULLH, gp.create)
    IN IF c.returned THEN Leave(w, c.r, c.r.ret, -1)
       ELSE hipfftMakePlanMany64(c.r.w, a, type, FALSE, gp.make)

\* hipfftPlan1d / 2d / 3d(&p, ...), like hipfftPlanMany
hipfftPlan1d(w, nx, type, batch, gp) ==
    LET c == CreateOwn(w, NULLH, gp.create)
    IN IF c.returned THEN Leave(w, c.r, c.r.ret, -1)
       ELSE hipfftMakePlan1d(c.r.w, nx, type, batch, FALSE, gp.make)

hipfftPlan2d(w, nx, ny, type, gp) ==
    LET c == CreateOwn(w, NULLH, gp.create)
    IN IF c.returned THEN Leave(w, c.r, c.r.ret, -1)
       ELSE hipfftMakePlan2d(c.r.w, nx, ny, type, FALSE, gp.make)

hipfftPlan3d(w, nx, ny, nz, type, gp) ==
    LET c == CreateOwn(w, NULLH, gp.create)
    IN IF c.returned THEN Leave(w, c.r, c.r.ret, -1)
       ELSE hipfftMakePlan3d(c.r.w, nx, ny, nz, type, FALSE, gp.make)

\* the behaviours of the two evaluations of hipfftPlanMany in hipfftGetSizeMany
PlanOracles(g) ==
    <<[create |-> g.create, make |-> g.make[1]],
      [create |-> <<g.create[2], g.create[2]>>, make |-> g.make[2]]>>

\* what happens past "*workSize = p->workBufferSize" when p is not a handle:
\* g.ub is "SIGSEGV" or the result the call goes on to return, with g.garbage
\* stored as the work size
Undefined(w, r, g) ==
    Leave(w, r, g.ub, IF g.ub = "SIGSEGV" THEN -1 ELSE g.garbage)

\* a rest of hipfftGetSizeMany that reports no work buffer
GetSizeManyBody_zero(w, p, g) ==
    IF p.returned THEN Leave(w, p.r, p.r.ret, -1)
    ELSE IF p.r.w.h = UNINIT \/ p.r.w.h = NULLH THEN Undefined(w, p.r, g)
    ELSE DestroyOwn(w, p.r.w, 0, g)

\* the rest of hipfftGetSizeMany / Many64 after hipfftPlanMany under
\* HIP_FFT_CHECK_AND_RETURN gave p
GetSizeManyBody(w, p, g) ==
    IF p.returned THEN Leave(w, p.r, p.r.ret, -1)
    ELSE IF p.r.w.h = UNINIT \/ p.r.w.h = NULLH THEN Undefined(w, p.r, g)
    ELSE DestroyOwn(w, p.r.w, p.r.w.h.workBufferSize, g)

hipfftGetSizeMany(w, a, type, g) ==
    LET again(first) ==
            HIP_FFT_CHECK_AND_RETURN(
                first, hipfftPlanMany(first.w, a, type, PlanOracles(g)[2]))
    IN GetSizeManyBody(
           w, again(hipfftPlanMany([w EXCEPT !.h = UNINIT], a, type, PlanOracles(g)[1])), g)

hipfftGetSizeMany64(w, a, type, g) ==
    LET again(first) ==
            HIP_FFT_CHECK_AND_RETURN(
                first, hipfftPlanMany64(first.w, a, type, PlanOracles(g)[2]))
    IN GetSizeManyBody(
           w, again(hipfftPlanMany64([w EXCEPT !.h = NULLH], a, type, PlanOracles(g)[1])), g)

\* hipfftEstimate*: the hipfftGetSize* call with plan = nullptr
Estimate(w, r) == [r EXCEPT !.w.h = w.h]

hipfftEstimate1d(w, nx, type, batch, wantWorkSize, g) ==
    Estimate(w, hipfftGetSize1d([w EXCEPT !.h = NULLH], nx, type, batch, wantWorkSize, g))

hipfftEstimate2d(w, nx, ny, type, wantWorkSize, g) ==
    Estimate(w, hipfftGetSize2d([w EXCEPT !.h = NULLH], nx, ny, type, wantWorkSize, g))

hipfftEstimate3d(w, nx, ny, nz, type, wantWorkSize, g) ==
    Estimate(w, hipfftGetSize3d([w EXCEPT !.h = NULLH], nx, ny, nz, type, wantWorkSize, g))

hipfftEstimateMany(w, a, type, g) ==
    Estimate(w, hipfftGetSizeMany([w EXCEPT !.h = NULLH], a, type, g))

(***************************************************************************)
(* hipfftGetSize, hipfftSetAutoAllocation, hipfftSetWorkArea               *)
(***************************************************************************)
\* hipfftGetSize(plan, workSize), plan and workSize not null
hipfftGetSize(w) == RetWS(w, "HIPFFT_SUCCESS", w.h.workBufferSize)

\* hipfftSetAutoAllocation(plan, autoAllocate): "plan->autoAllocate = bool(autoAllocate)"
hipfftSetAutoAllocation(w, autoAllocate) ==
    Ret(IF w.h # NULLH THEN [w EXCEPT !.h.autoAllocate = (autoAllocate # 0)] ELSE w,
        "HIPFFT_SUCCESS")

\* a hipfftSetWorkArea that keeps the work area as the plan's own buffer
hipfftSetWorkArea_adopts(w, workArea, ok) ==
    Ret([(IF workArea # NULLP
          THEN rocfft_execution_info_set_work_buffer(w, "caller", w.h.workBufferSize)
          ELSE w) EXCEPT !.h.workBuffer = workArea, !.h.workBufferNeedsFree = TRUE],
        "HIPFFT_SUCCESS")

\* hipfftSetWorkArea(plan, workArea), plan not null: workArea is NULLP or the
\* caller's buffer, ok the outcome of rocfft_execution_info_set_work_buffer.
\* The result of hipFree is not looked at, plan->workBuffer is not assigned.
hipfftSetWorkArea(w, workArea, ok) ==
    LET bind(w1) ==
            IF workArea = NULLP THEN Ret(w1, "HIPFFT_SUCCESS")
            ELSE IF ~ok
            THEN Ret(Call(w1, <<"rocfft_execution_info_set_work_buffer", "caller",
                                w1.h.workBufferSize, "fail">>),
                     "HIPFFT_INVALID_VALUE")
            ELSE Ret(rocfft_execution_info_set_work_buffer(w1, "caller", w1.h.workBufferSize),
                     "HIPFFT_SUCCESS")
    IN bind([(IF w.h.workBuffer # NULLP /\ w.h.workBufferNeedsFree THEN hipFree(w) ELSE w)
                EXCEPT !.h.workBufferNeedsFree = FALSE])

(***************************************************************************)
(* hipfftXtSetCallback, hipfftXtClearCallback,                             *)
(* hipfftXtSetCallbackSharedSize, hipfftExtPlanScaleFactor                 *)
(***************************************************************************)
\* hipfftXtCallbackType
LoadKinds ==
    {"HIPFFT_CB_LD_COMPLEX", "HIPFFT_CB_LD_COMPLEX_DOUBLE", "HIPFFT_CB_LD_REAL",
     "HIPFFT_CB_LD_REAL_DOUBLE"}

StoreKinds ==
    {"HIPFFT_CB_ST_COMPLEX", "HIPFFT_CB_ST_COMPLEX_DOUBLE", "HIPFFT_CB_ST_REAL",
     "HIPFFT_CB_ST_REAL_DOUBLE"}

\* a hipfftXtSetCallback that stores the pointers before it validates the kind
hipfftXtSetCallback_late(w, callbacks, cbtype, callbackData, fail) ==
    LET double == cbtype \in {"HIPFFT_CB_LD_COMPLEX_DOUBLE", "HIPFFT_CB_LD_REAL_DOUBLE",
                              "HIPFFT_CB_ST_COMPLEX_DOUBLE", "HIPFFT_CB_ST_REAL_DOUBLE"}
        real == cbtype \in {"HIPFFT_CB_LD_REAL", "HIPFFT_CB_LD_REAL_DOUBLE",
                            "HIPFFT_CB_ST_REAL", "HIPFFT_CB_ST_REAL_DOUBLE"}
        invalid ==
            \/ precision(w.h.type) # (IF double THEN "rocfft_precision_double"
                                      ELSE "rocfft_precision_single")
            \/ real # (IF cbtype \in LoadKinds THEN is_real_to_complex(w.h.type)
                       ELSE is_complex_to_real(w.h.type))
        stored ==
            IF cbtype \in LoadKinds
            THEN [w EXCEPT !.h.load_callback_ptrs = callbacks,
                           !.h.load_callback_data = callbackData,
                           !.h.load_callback_lds_bytes = 0]
            ELSE [w EXCEPT !.h.store_callback_ptrs = callbacks,
                           !.h.store_callback_data = callbackData,
                           !.h.store_callback_lds_bytes = 0]
    IN IF w.h = NULLH THEN Ret(w, "HIPFFT_INVALID_PLAN")
       ELSE IF cbtype = "HIPFFT_CB_UNDEFINED" THEN Ret(w, "HIPFFT_INVALID_VALUE")
       ELSE IF invalid THEN Ret(stored, "HIPFFT_INVALID_VALUE")
       ELSE Ret(Call(Call(stored, <<"rocfft_execution_info_set_load_callback",
                                    stored.h.load_callback_ptrs, stored.h.load_callback_data,
                                    stored.h.load_callback_lds_bytes, "success">>),
                     <<"rocfft_execution_info_set_store_callback",
                       stored.h.store_callback_ptrs, stored.h.store_callback_data,
                       stored.h.store_callback_lds_bytes, "success">>),
                "HIPFFT_SUCCESS")

\* a hipfftXtSetCallback that takes any kind but the undefined one, without
\* looking at the plan's type
hipfftXtSetCallback_unchecked(w, callbacks, cbtype, callbackData, fail) ==
    LET register(x) ==
            Ret(Call(Call(x, <<"rocfft_execution_info_set_load_callback",
                               x.h.load_callback_ptrs, x.h.load_callback_data,
                               x.h.load_callback_lds_bytes, "success">>),
                     <<"rocfft_execution_info_set_store_callback",
                       x.h.store_callback_ptrs, x.h.store_callback_data,
                       x.h.store_callback_lds_bytes, "success">>),
                "HIPFFT_SUCCESS")
    IN IF w.h = NULLH THEN Ret(w, "HIPFFT_INVALID_PLAN")
       ELSE IF cbtype = "HIPFFT_CB_UNDEFINED" THEN Ret(w, "HIPFFT_INVALID_VALUE")
       ELSE register(IF cbtype \in LoadKinds
                     THEN [w EXCEPT !.h.load_callback_ptrs = callbacks,
                                    !.h.load_callback_data = callbackData,
                                    !.h.load_callback_lds_bytes = 0]
                     ELSE [w EXCEPT !.h.store_callback_ptrs = callbacks,
                                    !.h.store_callback_data = callbackData,
                                    !.h.store_callback_lds_bytes = 0])

\* hipfftXtSetCallback(plan, callbacks, cbtype, callbackData); fail is the
\* registration that fails: "none", "load" or "store"
hipfftXtSetCallback(w, callbacks, cbtype, callbackData, fail) ==
    LET p == precision(w.h.type)
        r2c == is_real_to_complex(w.h.type)
        c2r == is_complex_to_real(w.h.type)
        \* the "return HIPFFT_INVALID_VALUE" of the switch
        invalid ==
            CASE cbtype = "HIPFFT_CB_LD_COMPLEX" -> p # "rocfft_precision_single" \/ r2c
              [] cbtype = "HIPFFT_CB_LD_COMPLEX_DOUBLE" -> p # "rocfft_precision_double" \/ r2c
              [] cbtype = "HIPFFT_CB_LD_REAL" -> p # "rocfft_precision_single" \/ ~r2c
              [] cbtype = "HIPFFT_CB_LD_REAL_DOUBLE" -> p # "rocfft_precision_double" \/ ~r2c
              [] cbtype = "HIPFFT_CB_ST_COMPLEX" -> p # "rocfft_precision_single" \/ c2r
              [] cbtype = "HIPFFT_CB_ST_COMPLEX_DOUBLE" -> p # "rocfft_precision_double" \/ c2r
              [] cbtype = "HIPFFT_CB_ST_REAL" -> p # "rocfft_precision_single" \/ ~c2r
              [] cbtype = "HIPFFT_CB_ST_REAL_DOUBLE" -> p # "rocfft_precision_double" \/ ~c2r
              [] cbtype = "HIPFFT_CB_UNDEFINED" -> TRUE
        \* rocfft_execution_info_set_load_callback, then ..._set_store_callback
        register(x) ==
            IF fail = "load"
            THEN Ret(Call(x, <<"rocfft_execution_info_set_load_callback",
                               x.h.load_callback_ptrs, x.h.load_callback_data,
                               x.h.load_callback_lds_bytes, "fail">>),
                     "HIPFFT_INVALID_VALUE")
            ELSE Ret(Call(Call(x, <<"rocfft_execution_info_set_load_callback",
                                    x.h.load_callback_ptrs, x.h.load_callback_data,
                                    x.h.load_callback_lds_bytes, "success">>),
                          <<"rocfft_execution_info_set_store_callback",
                            x.h.store_callback_ptrs, x.h.store_callback_data,
                            x.h.store_callback_lds_bytes,
                            IF fail = "store" THEN "fail" ELSE "success">>),
                     IF fail = "store" THEN "HIPFFT_INVALID_VALUE" ELSE "HIPFFT_SUCCESS")
    IN IF w.h = NULLH THEN Ret(w, "HIPFFT_INVALID_PLAN")
       ELSE IF invalid THEN Ret(w, "HIPFFT_INVALID_VALUE")
       ELSE register(IF cbtype \in LoadKinds
                     THEN [w EXCEPT !.h.load_callback_ptrs = callbacks,
                                    !.h.load_callback_data = callbackData,
                                    !.h.load_callback_lds_bytes = 0]
                     ELSE [w EXCEPT !.h.store_callback_ptrs = callbacks,
                                    !.h.store_callback_data = callbackData,
                                    !.h.store_callback_lds_bytes = 0])

\* a hipfftXtClearCallback that clears the callbacks and keeps the load data
hipfftXtClearCallback_keepsdata(w, cbtype, fail) ==
    hipfftXtSetCallback(w, NULLP, cbtype,
                        IF w.h = NULLH THEN NULLP ELSE w.h.load_callback_data, fail)

\* hipfftXtClearCallback(plan, cbtype)
hipfftXtClearCallback(w, cbtype, fail) == hipfftXtSetCallback(w, NULLP, cbtype, NULLP, fail)

\* hipfftXtSetCallbackSharedSize(plan, cbtype, sharedSize)
hipfftXtSetCallbackSharedSize(w, cbtype, sharedSize, fail) ==
    LET register(x) ==
            IF fail = "load"
            THEN Ret(Call(x, <<"rocfft_execution_info_set_load_callback",
                               x.h.load_callback_ptrs, x.h.load_callback_data,
                               x.h.load_callback_lds_bytes, "fail">>),
                     "HIPFFT_INVALID_VALUE")
            ELSE Ret(Call(Call(x, <<"rocfft_execution_info_set_load_callback",
                                    x.h.load_callback_ptrs, x.h.load_callback_data,
                                    x.h.load_callback_lds_bytes, "success">>),
                          <<"rocfft_execution_info_set_store_callback",
                            x.h.store_callback_ptrs, x.h.store_callback_data,
                            x.h.store_callback_lds_bytes,
                            IF fail = "store" THEN "fail" ELSE "success">>),
                     IF fail = "store" THEN "HIPFFT_INVALID_VALUE" ELSE "HIPFFT_SUCCESS")
    IN IF w.h = NULLH THEN Ret(w, "HIPFFT_INVALID_PLAN")
       ELSE IF cbtype = "HIPFFT_CB_UNDEFINED" THEN Ret(w, "HIPFFT_INVALID_VALUE")
       ELSE register(IF cbtype \in LoadKinds
                     THEN [w EXCEPT !.h.load_callback_lds_bytes = sharedSize]
                     ELSE [w EXCEPT !.h.store_callback_lds_bytes = sharedSize])

\* a hipfftExtPlanScaleFactor that stores whatever it is given
hipfftExtPlanScaleFactor_unchecked(w, scalefactor) ==
    Ret([w EXCEPT !.h.scale_factor = scalefactor], "HIPFFT_SUCCESS")

\* hipfftExtPlanScaleFactor(plan, scalefactor), plan not null; a double is
\* modelled by its name, the non-finite ones being "inf", "-inf" and "nan"
hipfftExtPlanScaleFactor(w, scalefactor) ==
    IF scalefactor \in {"inf", "-inf", "nan"} THEN Ret(w, "HIPFFT_INVALID_VALUE")
    ELSE Ret([w EXCEPT !.h.scale_factor = scalefactor], "HIPFFT_SUCCESS")

(***************************************************************************)
(* hipfftGetVersion, hipfftGetProperty                                     *)
(*   a version string is the sequence of its sections (what stands between *)
(*   the dots), a section the sequence of its decimal digits               *)
(***************************************************************************)
\* std::stoi of a string of digits
RECURSIVE stoi(_)
stoi(str) ==
    IF Len(str) = 0 THEN 0
    ELSE 10 * stoi(SubSeq(str, 1, Len(str) - 1)) + str[Len(str)]

\* the sections concatenated as they are
RECURSIVE VersionDigits_unpadded(_, _)
VersionDigits_unpadded(sections, i) ==
    IF i > Len(sections) \/ i > 3 THEN <<>>
    ELSE sections[i] \o VersionDigits_unpadded(sections, i + 1)

\* "for(i = 0; i < min(sections.size(), 3); i++) if(sections[i].size() == 1)
\* result << "0" << sections[i]; else result << sections[i];" from section i on
RECURSIVE VersionDigits(_, _)
VersionDigits(sections, i) ==
    IF i > Len(sections) \/ i > 3 THEN <<>>
    ELSE (IF Len(sections[i]) = 1 THEN <<0>> \o sections[i] ELSE sections[i])
         \o VersionDigits(sections, i + 1)

\* hipfftGetVersion(&version): v is the string rocfft_get_version_string
\* gives, ok its outcome; value is what *version holds afterwards, given that
\* it held old
hipfftGetVersion(w, v, ok, old) ==
    IF ~ok
    THEN [w |-> Call(w, <<"rocfft_get_version_string", "fail">>),
          ret |-> "HIPFFT_INVALID_VALUE", value |-> old]
    ELSE [w |-> Call(w, <<"rocfft_get_version_string", "success">>),
          ret |-> "HIPFFT_SUCCESS", value |-> stoi(VersionDigits(v, 1))]

PropertyTypes == {"HIPFFT_MAJOR_VERSION", "HIPFFT_MINOR_VERSION", "HIPFFT_PATCH_LEVEL"}

\* hipfftGetProperty(type, &value): "int full; hipfftGetVersion(&full);" with
\* the result not looked at; uninit is what full holds before; value is -1
\* when *value is not written
hipfftGetProperty(w, type, v, ok, uninit) ==
    LET rest(g) ==
            LET full == g.value
                major == full \div 10000
                minor == (full - major * 10000) \div 100
                patch == full - major * 10000 - minor * 100
            IN IF type = "HIPFFT_MAJOR_VERSION"
               THEN [w |-> g.w, ret |-> "HIPFFT_SUCCESS", value |-> major]
               ELSE IF type = "HIPFFT_MINOR_VERSION"
               THEN [w |-> g.w, ret |-> "HIPFFT_SUCCESS", value |-> minor]
               ELSE IF type = "HIPFFT_PATCH_LEVEL"
               THEN [w |-> g.w, ret |-> "HIPFFT_SUCCESS", value |-> patch]
               ELSE [w |-> g.w, ret |-> "HIPFFT_INVALID_TYPE", value |-> -1]
    IN rest(hipfftGetVersion(w, v, ok, uninit))

(***************************************************************************)
(* State and actions                                                       *)
(*   plan  the caller's handle: NULLH or the hipfftHandle_t it points to   *)
(*   res   the live objects (leaked ones included)                         *)
(*   hist  history of the current handle: makePlans counts the make-plan   *)
(*         calls on it, made says one of them returned HIPFFT_SUCCESS,     *)
(*         done that the caller has made its last call before destroying   *)
(*   last  the last public call: its name, arguments, result, the work     *)
(*         size it reported (-1: none) and the backend calls it issued     *)
(***************************************************************************)
\* bounds of the model
MaxMakePlans == 2
MaxExecMakePlans == 1
MaxHandles == 1
MaxPlans == 4
MaxWork == 2

NoHist == [makePlans |-> 0, made |-> FALSE, done |-> FALSE]

Init ==
    /\ plan = NULLH
    /\ res = NoResources
    /\ hist = NoHist
    /\ last = [op |-> "none", args |-> <<>>, ret |-> "HIPFFT_SUCCESS", workSize |-> -1,
               log |-> <<>>]

Bounded(r) == r.handles <= MaxHandles /\ r.plans <= MaxPlans

\* the state after a call on the caller's handle that returned r
Returned(r, op, args) ==
    /\ Bounded(r.w.res)
    /\ plan' = r.w.h
    /\ res' = r.w.res
    /\ last' = [op |-> op, args |-> args, ret |-> r.ret, workSize |-> -1, log |-> r.w.log]

ReturnedWS(r, op, args) ==
    /\ Bounded(r.w.res)
    /\ plan' = r.w.h
    /\ res' = r.w.res
    /\ last' = [op |-> op, args |-> args, ret |-> r.ret, workSize |-> r.workSize,
                log |-> r.w.log]

\* hipfftCreate(&plan) by a caller that holds no handle
Create(OKs) ==
    /\ plan = NULLH
    /\ \E ok \in OKs :
          Returned(hipfftCreate(World(plan, res), ok), "hipfftCreate", <<ok>>)
    /\ hist' = NoHist

\* hipfftDestroy(plan)
Destroy(Fails) ==
    /\ \E fail \in Fails :
          /\ Returned(hipfftDestroy(World(plan, res), fail), "hipfftDestroy", [h |-> plan])
          /\ hist' = IF plan' = NULLH THEN NoHist ELSE hist

\* a make-plan call may be made: the handle exists, has had fewer than Limit
\* make-plan calls, and the caller has not made its last call
MayPlan(Limit) == plan # NULLH /\ hist.makePlans < Limit /\ ~hist.done

\* a make-plan call has returned last'.ret; Final says it is the caller's last call
MadePlan(Final) ==
    hist' = [makePlans |-> hist.makePlans + 1,
             made |-> hist.made \/ last'.ret = "HIPFFT_SUCCESS",
             done |-> Final]

\* hipfftMakePlan1d(plan, nx, type, batch, workSize)
MakePlan1d(Limit, Final, Types, NXs, Batches, Oracles) ==
    /\ MayPlan(Limit)
    /\ \E type \in Types, nx \in NXs, batch \in Batches, o \in Oracles :
          /\ ReturnedWS(hipfftMakePlan1d(World(plan, res), nx, type, batch, TRUE, o),
                        "hipfftMakePlan1d",
                        [h |-> plan, type |-> type, nx |-> nx, batch |-> batch])
          /\ MadePlan(Final)

\* hipfftMakePlan2d(plan, nx, ny, type, workSize)
MakePlan2d(Limit, Final, Types, NXs, Oracles) ==
    /\ MayPlan(Limit)
    /\ \E type \in Types, nx \in NXs, ny \in NXs, o \in Oracles :
          /\ ReturnedWS(hipfftMakePlan2d(World(plan, res), nx, ny, type, TRUE, o),
                        "hipfftMakePlan2d", [h |-> plan, type |-> type, nx |-> nx, ny |-> ny])
          /\ MadePlan(Final)

\* hipfftMakePlan3d(plan, nx, ny, nz, type, workSize)
MakePlan3d(Limit, Final, Types, NXs, Oracles) ==
    /\ MayPlan(Limit)
    /\ \E type \in Types, nx \in NXs, ny \in NXs, nz \in NXs, o \in Oracles :
          /\ ReturnedWS(hipfftMakePlan3d(World(plan, res), nx, ny, nz, type, TRUE, o),
                        "hipfftMakePlan3d",
                        [h |-> plan, type |-> type, nx |-> nx, ny |-> ny, nz |-> nz])
          /\ MadePlan(Final)

\* hipfftMakePlanMany(plan, rank, n, inembed, istride, idist, onembed, ostride,
\* odist, type, batch, workSize)
MakePlanMany(Limit, Final, Types, Args, Oracles) ==
    /\ MayPlan(Limit)
    /\ \E type \in Types, a \in Args, o \in Oracles :
          /\ ReturnedWS(hipfftMakePlanMany(World(plan, res), a, type, TRUE, o),
                        "hipfftMakePlanMany", [h |-> plan, type |-> type, a |-> a])
          /\ MadePlan(Final)

\* hipfftMakePlanMany64, with the arguments of hipfftMakePlanMany
MakePlanMany64(Limit, Final, Types, Args, Oracles) ==
    /\ MayPlan(Limit)
    /\ \E type \in Types, a \in Args, o \in Oracles :
          /\ ReturnedWS(hipfftMakePlanMany64(World(plan, res), a, type, TRUE, o),
                        "hipfftMakePlanMany64", [h |-> plan, type |-> type, a |-> a])
          /\ MadePlan(Final)

\* hipfftXtMakePlanMany; Calls is a set of <<arguments, <<inputtype, outputtype,
\* executiontype>> >>
XtMakePlanMany(Limit, Final, Calls, Oracles) ==
    /\ MayPlan(Limit)
    /\ \E c \in Calls, o \in Oracles :
          /\ ReturnedWS(hipfftXtMakePlanMany(World(plan, res), c[1], c[2], TRUE, o),
                        "hipfftXtMakePlanMany", [h |-> plan, t |-> c[2], a |-> c[1]])
          /\ MadePlan(Final)

\* the state after a call r that worked on a handle of its own: last.before
\* is the count of live objects before the call
ReturnedOwn(r, op, args, Final) ==
    /\ r.w.res.handles <= MaxHandles + 1 /\ r.w.res.plans <= MaxPlans
    /\ plan' = r.w.h
    /\ res' = r.w.res
    /\ last' = [op |-> op, args |-> args, ret |-> r.ret, workSize |-> r.workSize,
                log |-> r.w.log, before |-> res]
    /\ hist' = [hist EXCEPT !.done = Final]

\* hipfftGetSize1d(plan, nx, type, batch, workSize); Calls is a set of
\* <<nx, type, batch, g>>
GetSize1d(Final, Calls) ==
    /\ ~hist.done
    /\ \E c \in Calls :
           ReturnedOwn(hipfftGetSize1d(World(plan, res), c[1], c[2], c[3], TRUE, c[4]),
                       "hipfftGetSize1d",
                       [h |-> plan, nx |-> c[1], type |-> c[2], batch |-> c[3]], Final)

Estimate1d(Final, Calls) ==
    /\ ~hist.done
    /\ \E c \in Calls :
           ReturnedOwn(hipfftEstimate1d(World(plan, res), c[1], c[2], c[3], TRUE, c[4]),
                       "hipfftEstimate1d",
                       [h |-> plan, nx |-> c[1], type |-> c[2], batch |-> c[3]], Final)

\* hipfftGetSize2d(plan, nx, ny, type, workSize); Calls is a set of <<nx, ny, type, g>>
GetSize2d(Final, Calls) ==
    /\ ~hist.done
    /\ \E c \in Calls :
           ReturnedOwn(hipfftGetSize2d(World(plan, res), c[1], c[2], c[3], TRUE, c[4]),
                       "hipfftGetSize2d",
                       [h |-> plan, nx |-> c[1], ny |-> c[2], type |-> c[3]], Final)

Estimate2d(Final, Calls) ==
    /\ ~hist.done
    /\ \E c \in Calls :
           ReturnedOwn(hipfftEstimate2d(World(plan, res), c[1], c[2], c[3], TRUE, c[4]),
                       "hipfftEstimate2d",
                       [h |-> plan, nx |-> c[1], ny |-> c[2], type |-> c[3]], Final)

\* hipfftGetSize3d(plan, nx, ny, nz, type, workSize); Calls is a set of
\* <<nx, ny, nz, type, g>>
GetSize3d(Final, Calls) ==
    /\ ~hist.done
    /\ \E c \in Calls :
           ReturnedOwn(hipfftGetSize3d(World(plan, res), c[1], c[2], c[3], c[4], TRUE, c[5]),
                       "hipfftGetSize3d",
                       [h |-> plan, nx |-> c[1], ny |-> c[2], nz |-> c[3], type |-> c[4]],
                       Final)

Estimate3d(Final, Calls) ==
    /\ ~hist.done
    /\ \E c \in Calls :
           ReturnedOwn(hipfftEstimate3d(World(plan, res), c[1], c[2], c[3], c[4], TRUE, c[5]),
                       "hipfftEstimate3d",
                       [h |-> plan, nx |-> c[1], ny |-> c[2], nz |-> c[3], type |-> c[4]],
                       Final)

\* hipfftGetSizeMany(plan, rank, ..., type, batch, workSize); Calls is a set of
\* <<arguments, type, g>>
GetSizeMany(Final, Calls) ==
    /\ ~hist.done
    /\ \E c \in Calls :
           ReturnedOwn(hipfftGetSizeMany(World(plan, res), c[1], c[2], c[3]),
                       "hipfftGetSizeMany", [h |-> plan, a |-> c[1], type |-> c[2]], Final)

GetSizeMany64(Final, Calls) ==
    /\ ~hist.done
    /\ \E c \in Calls :
           ReturnedOwn(hipfftGetSizeMany64(World(plan, res), c[1], c[2], c[3]),
                       "hipfftGetSizeMany64", [h |-> plan, a |-> c[1], type |-> c[2]], Final)

EstimateMany(Final, Calls) ==
    /\ ~hist.done
    /\ \E c \in Calls :
           ReturnedOwn(hipfftEstimateMany(World(plan, res), c[1], c[2], c[3]),
                       "hipfftEstimateMany", [h |-> plan, a |-> c[1], type |-> c[2]], Final)

\* hipfftXtGetSizeMany; Calls is a set of <<arguments, <<inputtype, outputtype,
\* executiontype>>, g>>
XtGetSizeMany(Final, Calls) ==
    /\ ~hist.done
    /\ \E c \in Calls :
           ReturnedOwn(hipfftXtGetSizeMany(World(plan, res), c[1], c[2], TRUE, c[3]),
                       "hipfftXtGetSizeMany", [h |-> plan, a |-> c[1], t |-> c[2]], Final)

\* data pointers: null, or one of two buffers
Ptrs == {NULLP, "A", "B"}

\* the (idata, odata) pairs of the execute calls: in place, out of place, and
\* each pointer null
PtrPairs == {<<"A", "A">>, <<"A", "B">>, <<NULLP, "B">>, <<"A", NULLP>>, <<NULLP, NULLP>>}

\* direction arguments: HIPFFT_FORWARD, HIPFFT_BACKWARD and another integer
Directions == {HIPFFT_FORWARD, HIPFFT_BACKWARD, 0}

ExecArgs(p, direction) == [idata |-> p[1], odata |-> p[2], direction |-> direction]

ExecC2C ==
    /\ plan # NULLH
    /\ \E p \in PtrPairs, direction \in Directions, execOK \in BOOLEAN :
          Returned(hipfftExecC2C(World(plan, res), p[1], p[2], direction, execOK),
                   "hipfftExecC2C", ExecArgs(p, direction))
    /\ UNCHANGED hist

ExecZ2Z ==
    /\ plan # NULLH
    /\ \E p \in PtrPairs, direction \in Directions, execOK \in BOOLEAN :
          Returned(hipfftExecC2C(World(plan, res), p[1], p[2], direction, execOK),
                   "hipfftExecZ2Z", ExecArgs(p, direction))
    /\ UNCHANGED hist

ExecR2C ==
    /\ plan # NULLH
    /\ \E p \in PtrPairs, execOK \in BOOLEAN :
          Returned(hipfftExecR2C(World(plan, res), p[1], p[2], execOK),
                   "hipfftExecR2C", ExecArgs(p, HIPFFT_FORWARD))
    /\ UNCHANGED hist

ExecD2Z ==
    /\ plan # NULLH
    /\ \E p \in PtrPairs, execOK \in BOOLEAN :
          Returned(hipfftExecR2C(World(plan, res), p[1], p[2], execOK),
                   "hipfftExecD2Z", ExecArgs(p, HIPFFT_FORWARD))
    /\ UNCHANGED hist

ExecC2R ==
    /\ plan # NULLH
    /\ \E p \in PtrPairs, execOK \in BOOLEAN :
          Returned(hipfftExecC2R(World(plan, res), p[1], p[2], execOK),
                   "hipfftExecC2R", ExecArgs(p, HIPFFT_BACKWARD))
    /\ UNCHANGED hist

ExecZ2D ==
    /\ plan # NULLH
    /\ \E p \in PtrPairs, execOK \in BOOLEAN :
          Returned(hipfftExecC2R(World(plan, res), p[1], p[2], execOK),
                   "hipfftExecZ2D", ExecArgs(p, HIPFFT_BACKWARD))
    /\ UNCHANGED hist

XtExec ==
    /\ plan # NULLH
    /\ \E p \in PtrPairs, direction \in Directions, execOK \in BOOLEAN :
          Returned(hipfftXtExec(World(plan, res), p[1], p[2], direction, execOK),
                   "hipfftXtExec", ExecArgs(p, direction))
    /\ UNCHANGED hist

\* hipfftGetSize(plan, &workSize)
GetSize ==
    /\ plan # NULLH
    /\ ReturnedWS(hipfftGetSize(World(plan, res)), "hipfftGetSize", [h |-> plan])
    /\ UNCHANGED hist

\* hipfftSetAutoAllocation(plan, autoAllocate), plan null or not
SetAutoAllocation(Values) ==
    /\ \E autoAllocate \in Values :
          Returned(hipfftSetAutoAllocation(World(plan, res), autoAllocate),
                   "hipfftSetAutoAllocation", [h |-> plan, autoAllocate |-> autoAllocate])
    /\ UNCHANGED hist

\* hipfftSetWorkArea(plan, workArea) with the caller's buffer or nullptr
SetWorkArea(Areas) ==
    /\ plan # NULLH
    /\ \E workArea \in Areas, ok \in BOOLEAN :
          Returned(hipfftSetWorkArea(World(plan, res), workArea, ok),
                   "hipfftSetWorkArea", [h |-> plan, workArea |-> workArea])
    /\ UNCHANGED hist

\* hipfftXtSetCallback(plan, callbacks, cbtype, callbackData), plan null or
\* not; Pointers is a set of <<callbacks, callbackData>>
XtSetCallback(Kinds, Pointers, Fails) ==
    /\ \E cbtype \in Kinds, p \in Pointers, fail \in Fails :
          Returned(hipfftXtSetCallback(World(plan, res), p[1], cbtype, p[2], fail),
                   "hipfftXtSetCallback",
                   [h |-> plan, callbacks |-> p[1], cbtype |-> cbtype, callbackData |-> p[2]])
    /\ UNCHANGED hist

\* hipfftXtClearCallback(plan, cbtype)
XtClearCallback(Kinds, Fails) ==
    /\ \E cbtype \in Kinds, fail \in Fails :
          Returned(hipfftXtClearCallback(World(plan, res), cbtype, fail),
                   "hipfftXtClearCallback",
                   [h |-> plan, callbacks |-> NULLP, cbtype |-> cbtype, callbackData |-> NULLP])
    /\ UNCHANGED hist

\* hipfftXtSetCallbackSharedSize(plan, cbtype, sharedSize)
XtSetCallbackSharedSize(Kinds, SharedSizes, Fails) ==
    /\ \E cbtype \in Kinds, sharedSize \in SharedSizes, fail \in Fails :
          Returned(hipfftXtSetCallbackSharedSize(World(plan, res), cbtype, sharedSize, fail),
                   "hipfftXtSetCallbackSharedSize",
                   [h |-> plan, cbtype |-> cbtype, sharedSize |-> sharedSize])
    /\ UNCHANGED hist

\* hipfftExtPlanScaleFactor(plan, scalefactor)
ExtPlanScaleFactor(Factors) ==
    /\ plan # NULLH
    /\ \E scalefactor \in Factors :
          Returned(hipfftExtPlanScaleFactor(World(plan, res), scalefactor),
                   "hipfftExtPlanScaleFactor", [h |-> plan, scalefactor |-> scalefactor])
    /\ UNCHANGED hist

\* the state after a hipfftPlan*(&plan, ...) by a caller that holds no handle:
\* the handle has had a make-plan call when the call got past hipfftCreate
ReturnedPlan(r, op, args) ==
    /\ r.w.res.handles <= MaxHandles + 1 /\ r.w.res.plans <= MaxPlans
    /\ r.w.res.descs <= MaxPlans
    /\ plan' = r.w.h
    /\ res' = r.w.res
    /\ last' = [op |-> op, args |-> args, ret |-> r.ret, workSize |-> r.workSize,
                log |-> r.w.log]
    /\ hist' = IF r.w.h = NULLH THEN NoHist
               ELSE [makePlans |-> 1, made |-> r.ret = "HIPFFT_SUCCESS", done |-> FALSE]

\* hipfftPlan1d(&plan, nx, type, batch); Calls is a set of <<nx, type, batch, gp>>
Plan1d(Calls) ==
    /\ plan = NULLH
    /\ \E c \in Calls :
          ReturnedPlan(hipfftPlan1d(World(plan, res), c[1], c[2], c[3], c[4]),
                       "hipfftPlan1d", [h |-> plan, nx |-> c[1], type |-> c[2], batch |-> c[3]])

\* hipfftPlan2d(&plan, nx, ny, type); Calls is a set of <<nx, ny, type, gp>>
Plan2d(Calls) ==
    /\ plan = NULLH
    /\ \E c \in Calls :
          ReturnedPlan(hipfftPlan2d(World(plan, res), c[1], c[2], c[3], c[4]),
                       "hipfftPlan2d", [h |-> plan, nx |-> c[1], ny |-> c[2], type |-> c[3]])

\* hipfftPlan3d(&plan, nx, ny, nz, type); Calls is a set of <<nx, ny, nz, type, gp>>
Plan3d(Calls) ==
    /\ plan = NULLH
    /\ \E c \in Calls :
          ReturnedPlan(hipfftPlan3d(World(plan, res), c[1], c[2], c[3], c[4], c[5]),
                       "hipfftPlan3d",
                       [h |-> plan, nx |-> c[1], ny |-> c[2], nz |-> c[3], type |-> c[4]])

\* hipfftPlanMany(&plan, rank, ..., type, batch); Calls is a set of
\* <<arguments, type, gp>>
PlanMany(Calls) ==
    /\ plan = NULLH
    /\ \E c \in Calls :
          ReturnedPlan(hipfftPlanMany(World(plan, res), c[1], c[2], c[3]),
                       "hipfftPlanMany", [h |-> plan, a |-> c[1], type |-> c[2]])

PlanMany64(Calls) ==
    /\ plan = NULLH
    /\ \E c \in Calls :
          ReturnedPlan(hipfftPlanMany64(World(plan, res), c[1], c[2], c[3]),
                       "hipfftPlanMany64", [h |-> plan, a |-> c[1], type |-> c[2]])

\* the state after a call that stores a number through a pointer
ReturnedValue(r, op, args) ==
    /\ plan' = r.w.h
    /\ res' = r.w.res
    /\ last' = [op |-> op, args |-> args, ret |-> r.ret, workSize |-> -1, log |-> r.w.log,
                value |-> r.value]
    /\ UNCHANGED hist

\* hipfftGetVersion(&version) with version holding 0, against a backend whose
\* version string is one of Versions
GetVersion(Versions) ==
    \E v \in Versions, ok \in BOOLEAN :
        ReturnedValue(hipfftGetVersion(World(plan, res), v, ok, 0),
                      "hipfftGetVersion", [v |-> v])

\* hipfftGetProperty(type, &value)
GetProperty(Types, Versions, Garbage) ==
    \E type \in Types, v \in Versions, ok \in BOOLEAN, uninit \in Garbage :
        ReturnedValue(hipfftGetProperty(World(plan, res), type, v, ok, uninit),
                      "hipfftGetProperty", [type |-> type, v |-> v])

\* backend behaviours of a make-plan in which only plan creation can fail and
\* no plan needs a work buffer
NoReq == [s \in Slots |-> 0]

CreateOracles ==
    {[create |-> c, req |-> NoReq, fail |-> "none", uninit |-> 0] :
        c \in [Slots -> BOOLEAN]}

AllTypes == HipfftTypes \cup {HIPFFT_TYPE_INVALID}

(***************************************************************************)
(* Spec: the life of one handle -- create, make-plan, destroy -- with the  *)
(* creation of the execution info, plan creation and the destroy calls     *)
(* free to fail                                                            *)
(***************************************************************************)
Next ==
    \/ Create(BOOLEAN)
    \/ MakePlan1d(MaxMakePlans, FALSE, AllTypes, {4}, {1}, CreateOracles)
    \/ Destroy(DestroyFailPoints)

Spec == Init /\ [][Next]_vars

(***************************************************************************)
(* SpecExec: execution dispatch on a handle that was created and planned,  *)
(* with plan creation and rocfft_execute free to fail                      *)
(***************************************************************************)
NextExec ==
    \/ Create({TRUE})
    \/ MakePlan1d(MaxExecMakePlans, FALSE, AllTypes, {4}, {1}, CreateOracles)
    \/ ExecC2C
    \/ ExecZ2Z
    \/ ExecR2C
    \/ ExecD2Z
    \/ ExecC2R
    \/ ExecZ2D
    \/ XtExec
    \/ Destroy({"none"})

SpecExec == Init /\ [][NextExec]_vars

(***************************************************************************)
(* SpecParams: parameter validation.  A handle is created, planned by      *)
(* hipfftMakePlan1d with good arguments or left as created, and then given *)
(* one call -- a make-plan, or a work size query against a backend that    *)
(* does not fail -- whose arguments range over good and bad values, the     *)
(* last call before it is destroyed                                        *)
(***************************************************************************)
\* rocFFT creates every plan, none needs a work buffer
AllCreate ==
    [create |-> [s \in Slots |-> TRUE], req |-> NoReq, fail |-> "none", uninit |-> 0]

\* sizes and counts: a negative and a good one
Sizes == {-1, 4}

Counts == {-1, 1}

Dists == {-1, 16}

Ranks == {-1, 1, 2}

Lengths == {<<4, 4>>, <<-1, 4>>, <<4, -1>>}

Embeds == {NullArray, Array(<<4, 4>>), Array(<<-1, 4>>)}

\* every combination of the arguments of the "many" operations
ManyCalls ==
    {ManyArgs(rank, n, inembed, istride, idist, onembed, ostride, odist, batch) :
        rank \in Ranks, n \in Lengths, inembed \in Embeds, istride \in Counts,
        idist \in Dists, onembed \in Embeds, ostride \in Counts, odist \in Dists,
        batch \in Counts}

\* a few of them: good ones, one embed null, a negative length
FewManyCalls ==
    {ManyArgs(rank, n, inembed, 1, 16, onembed, 1, 16, 1) :
        rank \in {1, 2}, n \in {<<4, 4>>, <<4, -1>>},
        inembed \in {NullArray, Array(<<4, 4>>)}, onembed \in {NullArray, Array(<<4, 4>>)}}

TypeTriples == DataTypes \X DataTypes \X DataTypes

FewTypeTriples ==
    {<<"HIP_C_32F", "HIP_C_32F", "HIP_C_32F">>, <<"HIP_R_64F", "HIP_C_64F", "HIP_C_64F">>,
     <<"HIP_C_16F", "HIP_R_16F", "HIP_C_16F">>, <<"HIP_R_32F", "HIP_R_32F", "HIP_C_32F">>,
     <<"HIP_R_8I", "HIP_C_8I", "HIP_C_8I">>, <<"HIP_C_8I", "HIP_C_32F", "HIP_C_32F">>}

XtCalls == (ManyCalls \X FewTypeTriples) \cup (FewManyCalls \X TypeTriples)

FewTypes == {"HIPFFT_C2C", "HIPFFT_D2Z", HIPFFT_TYPE_INVALID}

\* the backend behaviours of a call that works on a handle of its own.  Good:
\* nothing fails and no plan needs a work buffer
Good ==
    [create |-> <<TRUE, TRUE>>, make |-> <<AllCreate, AllCreate>>,
     destroy |-> <<"none", "none">>, ub |-> "SIGSEGV", garbage |-> 0]

NextParams ==
    \/ Create({TRUE})
    \/ MakePlan1d(MaxExecMakePlans, FALSE, {"HIPFFT_C2C", "HIPFFT_R2C"}, {4}, {1}, {AllCreate})
    \/ MakePlan1d(MaxMakePlans, TRUE, AllTypes, Sizes, Counts, {AllCreate})
    \/ MakePlan2d(MaxMakePlans, TRUE, AllTypes, Sizes, {AllCreate})
    \/ MakePlan3d(MaxMakePlans, TRUE, AllTypes, Sizes, {AllCreate})
    \/ MakePlanMany(MaxMakePlans, TRUE, FewTypes, ManyCalls, {AllCreate})
    \/ MakePlanMany64(MaxMakePlans, TRUE, FewTypes, ManyCalls, {AllCreate})
    \/ XtMakePlanMany(MaxMakePlans, TRUE, XtCalls, {AllCreate})
    \/ XtGetSizeMany(TRUE, FewManyCalls \X TypeTriples \X {Good})
    \/ GetSize1d(TRUE, Sizes \X FewTypes \X Counts \X {Good})
    \/ GetSize2d(TRUE, Sizes \X Sizes \X FewTypes \X {Good})
    \/ GetSize3d(TRUE, Sizes \X Sizes \X Sizes \X FewTypes \X {Good})
    \/ GetSizeMany(TRUE, ManyCalls \X FewTypes \X {Good})
    \/ GetSizeMany64(TRUE, ManyCalls \X {"HIPFFT_C2C"} \X {Good})
    \/ Destroy({"none"})

SpecParams == Init /\ [][NextParams]_vars

(***************************************************************************)
(* SpecGetSize: the work size queries, whose create, make-plan and destroy *)
(* steps are free to fail, called by a caller that holds a handle or none; *)
(* a query is the caller's last call before its next hipfftDestroy         *)
(***************************************************************************)
\* rocFFT creates no plan
NoCreate ==
    [create |-> [s \in Slots |-> FALSE], req |-> NoReq, fail |-> "none", uninit |-> 0]

\* every plan needs a work buffer of size, and the call named by fail fails
NeedsWork(size, fail) ==
    [create |-> [s \in Slots |-> TRUE], req |-> [s \in Slots |-> size], fail |-> fail,
     uninit |-> 0]

UBOutcomes == {"SIGSEGV", "HIPFFT_SUCCESS"}

OwnOracles ==
    {Good}
    \cup {[Good EXCEPT !.make = <<NeedsWork(size, "none"), AllCreate>>] : size \in 1..MaxWork}
    \cup {[Good EXCEPT !.create = <<FALSE, ok>>, !.ub = ub, !.garbage = MaxWork] :
             ok \in BOOLEAN, ub \in UBOutcomes}
    \cup {[Good EXCEPT !.make = <<NoCreate, o>>] : o \in {NoCreate, AllCreate}}
    \cup {[Good EXCEPT !.make = <<NeedsWork(1, fail), AllCreate>>] :
             fail \in {"get_work_buffer_size", "hipMalloc_null"}}
    \cup {[Good EXCEPT !.destroy = <<first, second>>] :
             first \in {"ip_forward", "info"}, second \in {"none", "info"}}

GoodMany == ManyArgs(2, <<4, 4>>, NullArray, 1, 16, NullArray, 1, 16, 1)

Calls1d ==
    ({4} \X {"HIPFFT_C2C"} \X {1} \X OwnOracles) \cup (Sizes \X FewTypes \X Counts \X {Good})

Calls2d ==
    ({4} \X {4} \X {"HIPFFT_C2C"} \X OwnOracles) \cup (Sizes \X Sizes \X FewTypes \X {Good})

Calls3d ==
    ({4} \X {4} \X {4} \X {"HIPFFT_C2C"} \X OwnOracles)
    \cup (Sizes \X Sizes \X {-1, 4} \X FewTypes \X {Good})

CallsMany ==
    ({GoodMany} \X {"HIPFFT_C2C"} \X OwnOracles) \cup (FewManyCalls \X FewTypes \X {Good})

XtGetSizeCalls ==
    ({GoodMany} \X {<<"HIP_C_32F", "HIP_C_32F", "HIP_C_32F">>} \X OwnOracles)
    \cup (FewManyCalls \X FewTypeTriples \X {Good})

NextGetSize ==
    \/ Create({TRUE})
    \/ GetSize1d(TRUE, Calls1d)
    \/ GetSize2d(TRUE, Calls2d)
    \/ GetSize3d(TRUE, Calls3d)
    \/ GetSizeMany(TRUE, CallsMany)
    \/ GetSizeMany64(TRUE, CallsMany)
    \/ XtGetSizeMany(TRUE, XtGetSizeCalls)
    \/ Estimate1d(TRUE, Calls1d)
    \/ Estimate2d(TRUE, Calls2d)
    \/ Estimate3d(TRUE, Calls3d)
    \/ EstimateMany(TRUE, CallsMany)
    \/ Destroy({"none"})

SpecGetSize == Init /\ [][NextGetSize]_vars

(***************************************************************************)
(* SpecWork: the work buffer of one handle.  Make-plans whose plans need   *)
(* work buffers of several sizes, with the allocator and the backend free  *)
(* to fail, between hipfftSetAutoAllocation, hipfftSetWorkArea and         *)
(* hipfftGetSize                                                           *)
(***************************************************************************)
\* what the four plans report as their work buffer sizes: the same size, or
\* different ones
UnevenReqs ==
    {[s \in Slots |-> IF s \in {"ip_forward", "op_forward"} THEN 1 ELSE MaxWork],
     [s \in Slots |-> IF s = "ip_inverse" THEN 1 ELSE 0]}

WorkOracles ==
    {[AllCreate EXCEPT !.req = r] : r \in UnevenReqs \cup {NoReq, [s \in Slots |-> MaxWork]}}
    \cup {[AllCreate EXCEPT !.req = r, !.create = [s \in Slots |-> s = "ip_inverse"]] :
             r \in UnevenReqs}
    \cup {NeedsWork(1, f) : f \in MakeFailPoints \ {"set_data_layout"}}
    \cup {NoCreate}

NextWork ==
    \/ Create({TRUE})
    \/ MakePlan1d(MaxMakePlans, FALSE, {"HIPFFT_C2C", "HIPFFT_R2C", "HIPFFT_C2R"}, {4}, {1},
                  WorkOracles)
    \/ GetSize
    \/ SetAutoAllocation({0, 1})
    \/ SetWorkArea({NULLP, "A"})
    \/ Destroy({"none"})

SpecWork == Init /\ [][NextWork]_vars

(***************************************************************************)
(* SpecCallback: the callbacks of one handle, planned for a transform of   *)
(* any role and precision or left as created, with the registration of the *)
(* callbacks free to fail                                                  *)
(***************************************************************************)
HalfComplex == <<"HIP_C_16F", "HIP_C_16F", "HIP_C_16F">>

NextCallback ==
    \/ Create({TRUE})
    \/ MakePlan1d(MaxExecMakePlans, FALSE, HipfftTypes, {4}, {1}, {AllCreate})
    \/ XtMakePlanMany(MaxExecMakePlans, FALSE, {<<GoodMany, HalfComplex>>}, {AllCreate})
    \/ XtSetCallback(LoadKinds \cup StoreKinds \cup {"HIPFFT_CB_UNDEFINED"},
                     {<<"cb", "data">>}, {"none", "load", "store"})
    \/ XtClearCallback(LoadKinds \cup StoreKinds \cup {"HIPFFT_CB_UNDEFINED"},
                       {"none", "store"})
    \/ XtSetCallbackSharedSize({"HIPFFT_CB_LD_COMPLEX", "HIPFFT_CB_LD_REAL_DOUBLE",
                                "HIPFFT_CB_ST_COMPLEX_DOUBLE", "HIPFFT_CB_ST_REAL",
                                "HIPFFT_CB_UNDEFINED"},
                               {0, 16}, {"none", "load"})
    \/ Destroy({"none"})

SpecCallback == Init /\ [][NextCallback]_vars

(***************************************************************************)
(* SpecScale: the scale factor of one handle, set before or between        *)
(* make-plans                                                              *)
(***************************************************************************)
NextScale ==
    \/ Create({TRUE})
    \/ ExtPlanScaleFactor({"1.0", "2.0", "0.5", "inf", "-inf", "nan"})
    \/ MakePlan1d(MaxMakePlans, FALSE, {"HIPFFT_C2C", "HIPFFT_R2C"}, {4}, {1}, {AllCreate})
    \/ Destroy({"none"})

SpecScale == Init /\ [][NextScale]_vars

(***************************************************************************)
(* SpecLayout: the data layout of the "many" make-plans, for ranks 1 to 3, *)
(* lengths with odd and even fastest dimensions, embeddings null or given, *)
(* and several strides and distances                                       *)
(***************************************************************************)
LayoutLengths == {<<4, 2, 6>>, <<5, 3, 2>>}

LayoutCalls ==
    {ManyArgs(rank, n, embed, istride, idist, embed, ostride, odist, 2) :
        rank \in 1..3, n \in LayoutLengths, embed \in {NullArray, Array(<<8, 8, 8>>)},
        istride \in {1, 2}, idist \in {0, 7}, ostride \in {1, 2}, odist \in {0, 7}}

\* plan creation fails for no slot, or for the in-place slots
LayoutOracles ==
    {AllCreate,
     [AllCreate EXCEPT !.create = [s \in Slots |-> s \in {"op_forward", "op_inverse"}]]}

NextLayout ==
    \/ Create({TRUE})
    \/ MakePlanMany(MaxExecMakePlans, FALSE, {"HIPFFT_C2C", "HIPFFT_R2C", "HIPFFT_Z2D"},
                    LayoutCalls, LayoutOracles)
    \/ MakePlanMany64(MaxExecMakePlans, FALSE, {"HIPFFT_Z2Z", "HIPFFT_D2Z", "HIPFFT_C2R"},
                      LayoutCalls, LayoutOracles)
    \/ XtMakePlanMany(MaxExecMakePlans, FALSE,
                      LayoutCalls \X {<<"HIP_C_32F", "HIP_C_32F", "HIP_C_32F">>,
                                      <<"HIP_R_64F", "HIP_C_64F", "HIP_C_64F">>,
                                      <<"HIP_C_16F", "HIP_R_16F", "HIP_C_16F">>},
                      LayoutOracles)
    \/ Destroy({"none"})

SpecLayout == Init /\ [][NextLayout]_vars

(***************************************************************************)
(* SpecVersion: the version queries against backends of several versions,  *)
(* with sections of one, two and three digits, with and without a tweak    *)
(***************************************************************************)
VersionStrings ==
    {<<major, minor, patch>> \o tweak :
        major \in {<<1>>, <<1, 2>>}, minor \in {<<0>>, <<7>>, <<1, 0>>, <<1, 0, 0>>},
        patch \in {<<3>>, <<2, 3>>, <<1, 0, 0>>}, tweak \in {<<>>, <<<<4, 5>>>>}}

NextVersion ==
    \/ GetVersion(VersionStrings)
    \/ GetProperty(PropertyTypes \cup {"HIPFFT_OTHER"}, VersionStrings, {0, 12345})

SpecVersion == Init /\ [][NextVersion]_vars

(***************************************************************************)
(* SpecPlan: hipfftPlan1d / 2d / 3d / Many / Many64 by a caller that holds *)
(* no handle, with the creation of the execution info and of the plans     *)
(* free to fail, and hipfftDestroy of what the call handed out             *)
(***************************************************************************)
\* the outcomes of rocfft_execution_info_create in the two evaluations of
\* hipfftCreate, with backends that create all, some or no plans
PlanBehaviours ==
    {[create |-> c, make |-> m] :
        c \in {<<TRUE, TRUE>>, <<FALSE, TRUE>>, <<FALSE, FALSE>>},
        m \in {AllCreate, NoCreate, NeedsWork(MaxWork, "none"),
               [AllCreate EXCEPT !.create = [s \in Slots |-> s \in {"op_forward", "op_inverse"}]]}}

NextPlan ==
    \/ Plan1d({-1, 4} \X FewTypes \X {1} \X PlanBehaviours)
    \/ Plan2d({4} \X {-1, 4} \X FewTypes \X PlanBehaviours)
    \/ Plan3d({4} \X {4} \X {4} \X FewTypes \X PlanBehaviours)
    \/ PlanMany(FewManyCalls \X FewTypes \X PlanBehaviours)
    \/ PlanMany64(FewManyCalls \X {"HIPFFT_Z2Z", "HIPFFT_Z2D"} \X PlanBehaviours)
    \/ Destroy({"none"})

SpecPlan == Init /\ [][NextPlan]_vars

(***************************************************************************)
(* SpecRank: the "many" make-plans with ranks from 0 to 4, on a created    *)
(* handle.  What an unwritten length holds and what a write past the end   *)
(* of the arrays leads to are the backend behaviour's uninit and ub        *)
(***************************************************************************)
RankCalls ==
    {ManyArgs(rank, <<4, 2, 6, 3>>, embed, 1, 16, embed, 1, 16, 1) :
        rank \in 0..4, embed \in {NullArray, Array(<<8, 8, 8, 8>>)}}

RankOracles ==
    {[create |-> [s \in Slots |-> c], req |-> NoReq, fail |-> "none", uninit |-> u, ub |-> x] :
        c \in BOOLEAN, u \in {0, 7}, x \in UBOutcomes \cup {"HIPFFT_PARSE_ERROR"}}

NextRank ==
    \/ Create({TRUE})
    \/ MakePlanMany(MaxExecMakePlans, FALSE, {"HIPFFT_C2C", "HIPFFT_R2C", "HIPFFT_Z2D"},
                    RankCalls, RankOracles)
    \/ MakePlanMany64(MaxExecMakePlans, FALSE, {"HIPFFT_Z2Z"}, RankCalls, RankOracles)
    \/ XtMakePlanMany(MaxExecMakePlans, FALSE,
                      RankCalls \X {<<"HIP_R_64F", "HIP_C_64F", "HIP_C_64F">>}, RankOracles)

SpecRank == Init /\ [][NextRank]_vars

(***************************************************************************)
(* Properties                                                              *)
(***************************************************************************)
FixedDirectionOps ==
    {"hipfftExecC2C", "hipfftExecZ2Z", "hipfftExecR2C", "hipfftExecD2Z",
     "hipfftExecC2R", "hipfftExecZ2D"}

ExecOps == FixedDirectionOps \cup {"hipfftXtExec"}

\* the slots the last call had rocFFT execute
Executed == {last.log[i][2] : i \in CallsTo(last.log, "rocfft_execute")}

\* rocfft_execute did not fail in the last call
BackendExecuted == \A i \in CallsTo(last.log, "rocfft_execute") : last.log[i][4] = "success"

\* the slot keyed by (placement, direction)
KeySlot(inplace, direction) ==
    CASE inplace /\ direction = HIPFFT_FORWARD -> "ip_forward"
      [] ~inplace /\ direction = HIPFFT_FORWARD -> "op_forward"
      [] inplace /\ direction = HIPFFT_BACKWARD -> "ip_inverse"
      [] ~inplace /\ direction = HIPFFT_BACKWARD -> "op_inverse"

InPlace == last.args.idata = last.args.odata

NonNullData == last.args.idata # NULLP /\ last.args.odata # NULLP

\* C1: an execute with an explicit or fixed direction and non-null pointers
\* executes the plan of the slot keyed by (input == output, direction) when
\* that slot is populated, and no other plan; with a direction that is neither
\* HIPFFT_FORWARD nor HIPFFT_BACKWARD it returns HIPFFT_EXEC_FAILED and calls
\* nothing.
C1_ExecutesKeyedSlot ==
    (last.op \in FixedDirectionOps /\ NonNullData) =>
        IF last.args.direction \in {HIPFFT_FORWARD, HIPFFT_BACKWARD}
        THEN LET k == KeySlot(InPlace, last.args.direction)
             IN /\ Cardinality(CallsTo(last.log, "rocfft_execute")) <= 1
                /\ Executed = IF plan[k] # NULLP THEN {k} ELSE {}
        ELSE last.ret = "HIPFFT_EXEC_FAILED" /\ last.log = <<>>

C1_Witness ==
    /\ last.op = "hipfftExecZ2Z"
    /\ last.args.direction = HIPFFT_BACKWARD
    /\ last.args.idata = "A" /\ last.args.odata = "B"
    /\ Executed = {"op_inverse"}
    /\ last.ret = "HIPFFT_SUCCESS"

\* C2: hipfftXtExec on a real-to-complex plan runs the forward plan of the
\* placement and on a complex-to-real plan the inverse plan of the placement,
\* whatever the direction argument is.
C2_TypeOverridesDirection ==
    (last.op = "hipfftXtExec" /\ hist.made /\ NonNullData) =>
        /\ is_real_to_complex(plan.type) =>
              LET k == KeySlot(InPlace, HIPFFT_FORWARD)
              IN Executed = IF plan[k] # NULLP THEN {k} ELSE {}
        /\ is_complex_to_real(plan.type) =>
              LET k == KeySlot(InPlace, HIPFFT_BACKWARD)
              IN Executed = IF plan[k] # NULLP THEN {k} ELSE {}

\* the slot an execute request selects: by the direction the data types imply
\* for hipfftXtExec on a real transform, else by the direction of the call
SelectedSlot ==
    IF last.op = "hipfftXtExec" /\ is_real_to_complex(plan.type)
    THEN KeySlot(InPlace, HIPFFT_FORWARD)
    ELSE IF last.op = "hipfftXtExec" /\ is_complex_to_real(plan.type)
    THEN KeySlot(InPlace, HIPFFT_BACKWARD)
    ELSE KeySlot(InPlace, last.args.direction)

\* C3: after a successful make-plan, an execute request whose selected slot is
\* empty returns HIPFFT_EXEC_FAILED and does not call rocfft_execute.
C3_EmptySlotExecFailed ==
    (/\ last.op \in ExecOps
     /\ hist.made
     /\ last.args.direction \in {HIPFFT_FORWARD, HIPFFT_BACKWARD}
     /\ plan[SelectedSlot] = NULLP) =>
        last.ret = "HIPFFT_EXEC_FAILED" /\ Executed = {}

MakePlanOps ==
    {"hipfftMakePlan1d", "hipfftMakePlan2d", "hipfftMakePlan3d", "hipfftMakePlanMany",
     "hipfftMakePlanMany64", "hipfftXtMakePlanMany"}

\* the slots for which the last call's rocfft_plan_create succeeded / was called
CreatedSlots ==
    {last.log[i][2] : i \in {j \in CallsTo(last.log, "rocfft_plan_create") :
                                last.log[j][3] = "success"}}

AttemptedSlots == {last.log[i][2] : i \in CallsTo(last.log, "rocfft_plan_create")}

Populated == {s \in Slots : plan[s] # NULLP}

\* C4: a make-plan that got as far as creating plans returns HIPFFT_SUCCESS only
\* with a slot populated, and when every rocfft_plan_create failed it returns
\* HIPFFT_PARSE_ERROR and leaves all four slots empty.
C4_NoPlanNoSlots ==
    (last.op \in MakePlanOps /\ AttemptedSlots # {}) =>
        /\ last.ret = "HIPFFT_SUCCESS" => Populated # {}
        /\ CreatedSlots = {} => last.ret = "HIPFFT_PARSE_ERROR" /\ Populated = {}

\* C5: after Create and one make-plan, which succeeded, a real-to-complex plan
\* has both inverse slots empty and a complex-to-real plan both forward slots;
\* hipfftExecR2C / D2Z on the real-to-complex plan succeeds when its slot is
\* populated, the pointers are non-null and rocfft_execute succeeds, and
\* hipfftExecC2R / Z2D on it returns HIPFFT_EXEC_FAILED and executes nothing.
C5_DirectionSet ==
    (plan # NULLH /\ hist.makePlans = 1 /\ hist.made) =>
        /\ is_real_to_complex(plan.type) =>
              plan.ip_inverse = NULLP /\ plan.op_inverse = NULLP
        /\ is_complex_to_real(plan.type) =>
              plan.ip_forward = NULLP /\ plan.op_forward = NULLP
        /\ (/\ last.op \in {"hipfftExecR2C", "hipfftExecD2Z"}
            /\ is_real_to_complex(plan.type)
            /\ NonNullData
            /\ plan[KeySlot(InPlace, HIPFFT_FORWARD)] # NULLP
            /\ BackendExecuted) => last.ret = "HIPFFT_SUCCESS"
        /\ (last.op \in {"hipfftExecC2R", "hipfftExecZ2D"} /\ is_real_to_complex(plan.type))
              => last.ret = "HIPFFT_EXEC_FAILED" /\ Executed = {}

C5_Witness ==
    /\ plan # NULLH /\ hist.makePlans = 1 /\ hist.made
    /\ plan.type = IOType("HIP_R_32F", "HIP_C_32F")
    /\ plan.ip_forward = LIVE /\ plan.op_forward = NULLP
    /\ last.op = "hipfftExecC2R"
    /\ last.args.idata = "A" /\ last.args.odata = "A"
    /\ last.ret = "HIPFFT_EXEC_FAILED"

\* real and complex data types, and their precisions
IsReal(t) == t \in {"HIP_R_16F", "HIP_R_32F", "HIP_R_64F", "HIP_R_8I"}

IsComplex(t) == t \in {"HIP_C_16F", "HIP_C_32F", "HIP_C_64F", "HIP_C_8I"}

PrecisionOf(t) ==
    CASE t \in {"HIP_R_16F", "HIP_C_16F"} -> "16F"
      [] t \in {"HIP_R_32F", "HIP_C_32F"} -> "32F"
      [] t \in {"HIP_R_64F", "HIP_C_64F"} -> "64F"
      [] t \in {"HIP_R_8I", "HIP_C_8I"} -> "8I"

\* the compatibility rules of an <<input, output, execution>> type triple
Compatible(t) ==
    /\ PrecisionOf(t[1]) = PrecisionOf(t[2]) /\ PrecisionOf(t[1]) = PrecisionOf(t[3])
    /\ IsComplex(t[3])
    /\ IsReal(t[1]) => IsComplex(t[2])

XtOps == {"hipfftXtMakePlanMany", "hipfftXtGetSizeMany"}

NoPlanCreated == CallsTo(last.log, "rocfft_plan_create") = {}

\* C6 as claimed: an explicit-types call with a type triple that violates the
\* compatibility rules returns HIPFFT_INVALID_VALUE and creates no rocFFT plan.
C6_IncompatibleInvalidValue ==
    (last.op \in XtOps /\ ~Compatible(last.args.t)) =>
        last.ret = "HIPFFT_INVALID_VALUE" /\ NoPlanCreated

\* C6 amended: an explicit-types call with a type triple that violates the
\* compatibility rules returns HIPFFT_INVALID_VALUE when the input type is one
\* of the six half/single/double types and HIPFFT_NOT_IMPLEMENTED when it is
\* any other type; it calls nothing and changes nothing.
C6_IncompatibleRejected ==
    (last.op \in XtOps /\ ~Compatible(last.args.t)) =>
        /\ last.ret = IF last.args.t[1] \in SupportedDataTypes
                      THEN "HIPFFT_INVALID_VALUE" ELSE "HIPFFT_NOT_IMPLEMENTED"
        /\ last.log = <<>>
        /\ plan = last.args.h

C6_Witness ==
    /\ last.op = "hipfftXtMakePlanMany"
    /\ last.args.t = <<"HIP_C_32F", "HIP_C_32F", "HIP_C_64F">>
    /\ ~EmbedMismatch(last.args.a.inembed, last.args.a.onembed)
    /\ last.args.a.rank = 2 /\ last.args.a.n = <<4, 4>>
    /\ last.ret = "HIPFFT_INVALID_VALUE"

ManyOps == {"hipfftMakePlanMany", "hipfftMakePlanMany64", "hipfftXtMakePlanMany"}

\* some size, count, length, stride or distance of the last make-plan call is
\* negative
NegativeArgument ==
    CASE last.op = "hipfftMakePlan1d" -> last.args.nx < 0 \/ last.args.batch < 0
      [] last.op = "hipfftMakePlan2d" -> last.args.nx < 0 \/ last.args.ny < 0
      [] last.op = "hipfftMakePlan3d" ->
            last.args.nx < 0 \/ last.args.ny < 0 \/ last.args.nz < 0
      [] last.op \in ManyOps ->
            LET a == last.args.a
            IN \/ a.rank < 0 \/ a.batch < 0
               \/ a.istride < 0 \/ a.idist < 0 \/ a.ostride < 0 \/ a.odist < 0
               \/ \E i \in 1..a.rank :
                     \/ a.n[i] < 0
                     \/ ~a.inembed.null /\ a.inembed.at[i] < 0
                     \/ ~a.onembed.null /\ a.onembed.at[i] < 0

\* the last make-plan call names a transform the library has a case for
KindRecognised ==
    CASE last.op \in {"hipfftMakePlan1d", "hipfftMakePlan2d", "hipfftMakePlan3d",
                      "hipfftMakePlanMany", "hipfftMakePlanMany64"} ->
            last.args.type \in HipfftTypes
      [] last.op = "hipfftXtMakePlanMany" -> last.args.t[1] \in SupportedDataTypes

\* C7 as claimed: a make-plan call with a negative size, rank, batch, length,
\* stride or distance returns HIPFFT_INVALID_SIZE or HIPFFT_INVALID_VALUE, creates
\* no rocFFT plan and leaves the handle as it was.
C7_NegativeRejected ==
    (last.op \in MakePlanOps /\ NegativeArgument) =>
        /\ last.ret \in {"HIPFFT_INVALID_SIZE", "HIPFFT_INVALID_VALUE"}
        /\ NoPlanCreated
        /\ plan = last.args.h

\* C7 amended: a make-plan call with a negative size, rank, batch, length,
\* stride or distance creates no rocFFT plan and leaves the handle as it was; it
\* returns HIPFFT_INVALID_SIZE or HIPFFT_INVALID_VALUE, except that
\* hipfftMakePlanMany / Many64 with an unrecognised hipfftType and
\* hipfftXtMakePlanMany with an input type outside the six supported ones
\* return HIPFFT_NOT_IMPLEMENTED.
C7_NegativeRejectedByKind ==
    (last.op \in MakePlanOps /\ NegativeArgument) =>
        /\ last.log = <<>>
        /\ plan = last.args.h
        /\ last.ret \in
              IF KindRecognised
                 \/ last.op \in {"hipfftMakePlan1d", "hipfftMakePlan2d", "hipfftMakePlan3d"}
              THEN {"HIPFFT_INVALID_SIZE", "HIPFFT_INVALID_VALUE"}
              ELSE {"HIPFFT_NOT_IMPLEMENTED"}

C7_Witness ==
    /\ last.op = "hipfftMakePlanMany64"
    /\ last.args.type = "HIPFFT_D2Z"
    /\ last.args.a.rank = 2
    /\ last.args.a.n = <<4, -1>>
    /\ last.args.a.inembed.null /\ last.args.a.onembed.null
    /\ last.args.a.istride = 1 /\ last.args.a.ostride = 1 /\ last.args.a.batch = 1
    /\ last.args.h.ip_forward = LIVE
    /\ last.ret = "HIPFFT_INVALID_VALUE"
    /\ plan = last.args.h

\* C8: hipfftMakePlanMany, hipfftMakePlanMany64 and hipfftXtMakePlanMany with a
\* recognised transform kind and exactly one of inembed / onembed null return
\* HIPFFT_INVALID_VALUE and create no rocFFT plan, whatever the rank, lengths,
\* strides, distances and batch are.
C8_OneEmbedNull ==
    (/\ last.op \in ManyOps
     /\ IF last.op = "hipfftXtMakePlanMany"
        THEN last.args.t[1] \in SupportedDataTypes /\ Compatible(last.args.t)
        ELSE last.args.type \in HipfftTypes
     /\ last.args.a.inembed.null # last.args.a.onembed.null) =>
        last.ret = "HIPFFT_INVALID_VALUE" /\ NoPlanCreated

C8_Witness ==
    /\ last.op = "hipfftMakePlanMany"
    /\ last.args.type = "HIPFFT_C2C"
    /\ last.args.a.inembed.null /\ ~last.args.a.onembed.null
    /\ ~NegativeArgument
    /\ last.args.a.rank = 2
    /\ last.ret = "HIPFFT_INVALID_VALUE"

\* C9: hipfftDestroy on a non-null handle destroys every populated slot, frees
\* the work buffer if the library owns it, destroys the execution info and
\* deletes the handle, whatever happens; on a handle without plans it calls no
\* rocfft_plan_destroy and succeeds; on a null handle it succeeds and calls
\* nothing.
C9_DestroyReleasesAll ==
    last.op = "hipfftDestroy" =>
        IF last.args.h = NULLH
        THEN last.ret = "HIPFFT_SUCCESS" /\ last.log = <<>>
        ELSE /\ \A s \in Slots :
                  (\E i \in CallsTo(last.log, "rocfft_plan_destroy") :
                      last.log[i][2] = s /\ Len(last.log[i]) = 3)
                  <=> last.args.h[s] # NULLP
             /\ last.args.h.workBufferNeedsFree <=> CallsTo(last.log, "hipFree") # {}
             /\ \E i \in CallsTo(last.log, "rocfft_execution_info_destroy") :
                   last.log[i][2] = "success"
             /\ plan = NULLH
             /\ (\A s \in Slots : last.args.h[s] = NULLP) => last.ret = "HIPFFT_SUCCESS"

GetSizeOps ==
    {"hipfftGetSize1d", "hipfftGetSize2d", "hipfftGetSize3d", "hipfftGetSizeMany",
     "hipfftGetSizeMany64", "hipfftXtGetSizeMany", "hipfftEstimate1d", "hipfftEstimate2d",
     "hipfftEstimate3d", "hipfftEstimateMany"}

\* C10: when a work size query returns, with success or with an error, every
\* handle, execution info, rocFFT plan and work buffer it created has been
\* released, and the caller's handle is what it was.
C10_NothingLeftAlive ==
    last.op \in GetSizeOps => res = last.before /\ plan = last.args.h

\* C11: when hipfftSetWorkArea(plan, nullptr) has returned, the execution info
\* has no work buffer bound, in particular not the library's buffer that the
\* call has just freed.
C11_NullClearsBinding ==
    (last.op = "hipfftSetWorkArea" /\ last.args.workArea = NULLP) =>
        plan.info.work_buffer = "none"

\* the calls of the last operation that bind a work buffer to the execution
\* info, as <<buffer, size, outcome>>
Bindings ==
    {<<last.log[i][2], last.log[i][3], last.log[i][4]>> :
        i \in CallsTo(last.log, "rocfft_execution_info_set_work_buffer")}

\* the buffers the last operation passed to hipFree
Freed == {last.log[i][2] : i \in CallsTo(last.log, "hipFree")}

\* C12: hipfftSetWorkArea frees the existing work buffer exactly when the
\* library owns it, leaves the owns flag false and, given a non-null pointer,
\* binds that pointer to the execution info with the recorded work size (and
\* binds nothing given nullptr); no hipfftSetWorkArea, make-plan or
\* hipfftDestroy passes to hipFree anything but nullptr or a buffer from
\* hipMalloc, and plan->workBuffer never is the caller's buffer.
C12_SetWorkArea ==
    /\ last.op = "hipfftSetWorkArea" =>
          /\ Freed # {} <=> (last.args.h.workBuffer # NULLP /\ last.args.h.workBufferNeedsFree)
          /\ ~plan.workBufferNeedsFree
          /\ IF last.args.workArea = NULLP THEN Bindings = {}
             ELSE /\ \E b \in Bindings :
                        b[1] = "caller" /\ b[2] = last.args.h.workBufferSize
                  /\ Cardinality(Bindings) = 1
                  /\ last.ret = "HIPFFT_SUCCESS" => plan.info.work_buffer = "caller"
    /\ Freed \subseteq {NULLP, LIVE, DEAD}
    /\ plan # NULLH => plan.workBuffer \in {NULLP, LIVE, DEAD}

\* a caller's work area replaced the library's buffer of MaxWork bytes
C12_Witness ==
    /\ last.op = "hipfftSetWorkArea"
    /\ last.args.workArea = "A"
    /\ last.args.h.workBufferNeedsFree
    /\ last.args.h.workBufferSize = MaxWork
    /\ Freed = {LIVE}
    /\ plan.info.work_buffer = "caller"
    /\ res.bufs = 0

\* the work buffer size queries of the last operation, as <<slot, size, outcome>>
Queries ==
    {<<last.log[i][2], last.log[i][3], last.log[i][4]>> :
        i \in CallsTo(last.log, "rocfft_plan_get_work_buffer_size")}

\* the last operation is a make-plan that got every size it asked for
SizesKnown ==
    last.op \in MakePlanOps /\ Queries # {} /\ \A q \in Queries : q[3] = "success"

\* the largest of the sizes the backend reported
Computed == CHOOSE n \in {q[2] : q \in Queries} : \A q \in Queries : q[2] <= n

\* the hipMalloc calls of the last operation, as <<size, outcome>>
Mallocs == {<<last.log[i][2], last.log[i][3]>> : i \in CallsTo(last.log, "hipMalloc")}

WorkBufferOf(h) == <<h.workBuffer, h.workBufferNeedsFree, h.info.work_buffer>>

\* C13: a make-plan on a handle with auto-allocation on that computed a work
\* size > 0 passes the buffer the library owned, if any, to hipFree, asks
\* hipMalloc for exactly the computed size and, these calls succeeding, sets
\* the owns flag and binds the new buffer with that size; with auto-allocation
\* off or a computed size of 0 (or no size computed) a make-plan calls neither
\* hipMalloc nor hipFree nor rocfft_execution_info_set_work_buffer and leaves
\* buffer, flag and binding alone.  hipfftSetAutoAllocation calls nothing and
\* changes the flag only.
C13_AutoAllocate ==
    /\ last.op \in MakePlanOps =>
          IF SizesKnown /\ Computed > 0 /\ last.args.h.autoAllocate
          THEN /\ Freed # {} <=>
                     (last.args.h.workBuffer # NULLP /\ last.args.h.workBufferNeedsFree)
               /\ Mallocs \subseteq {<<Computed, "success">>, <<Computed, "fail">>}
               /\ <<Computed, "success">> \in Mallocs =>
                     /\ plan.workBufferNeedsFree /\ plan.workBuffer = LIVE
                     /\ Bindings \in {{<<"workBuffer", Computed, "success">>},
                                      {<<"workBuffer", Computed, "fail">>}}
               /\ last.ret = "HIPFFT_SUCCESS" =>
                     /\ Mallocs = {<<Computed, "success">>}
                     /\ plan.info.work_buffer = "workBuffer"
          ELSE /\ Mallocs = {} /\ Freed = {} /\ Bindings = {}
               /\ WorkBufferOf(plan) = WorkBufferOf(last.args.h)
    /\ last.op = "hipfftSetAutoAllocation" =>
          /\ last.log = <<>> /\ last.ret = "HIPFFT_SUCCESS"
          /\ plan = IF last.args.h = NULLH THEN NULLH
                    ELSE [last.args.h EXCEPT !.autoAllocate = (last.args.autoAllocate # 0)]

\* a second make-plan replaced the library's buffer by one of MaxWork bytes
C13_Witness ==
    /\ SizesKnown /\ Computed = MaxWork
    /\ last.args.h.autoAllocate /\ last.args.h.workBufferNeedsFree
    /\ last.args.h.workBufferSize = 1
    /\ Freed = {LIVE}
    /\ last.ret = "HIPFFT_SUCCESS"
    /\ plan.workBuffer = LIVE /\ plan.workBufferNeedsFree
    /\ res.bufs = 1

\* the slots of a transform type's direction set
DirectionSet(type) ==
    IF type \in {"HIPFFT_R2C", "HIPFFT_D2Z"} THEN {"ip_forward", "op_forward"}
    ELSE IF type \in {"HIPFFT_C2R", "HIPFFT_Z2D"} THEN {"ip_inverse", "op_inverse"}
    ELSE Slots

\* C14: a successful make-plan asks the populated slots of the transform's
\* direction set, and only them, for their work buffer sizes, and reports and
\* records the largest answer (0 when all are 0); hipfftGetSize(plan) returns
\* the recorded size, which no other call changes, and which is 0 as long as
\* no make-plan on the handle has succeeded.
C14_WorkSize ==
    /\ (last.op = "hipfftMakePlan1d" /\ last.ret = "HIPFFT_SUCCESS") =>
          /\ {q[1] : q \in Queries} = Populated \cap DirectionSet(last.args.type)
          /\ \A q \in Queries : q[3] = "success"
          /\ last.workSize = Computed
          /\ plan.workBufferSize = Computed
    /\ last.op = "hipfftGetSize" =>
          /\ last.ret = "HIPFFT_SUCCESS"
          /\ last.workSize = plan.workBufferSize
          /\ plan = last.args.h
    /\ ((last.op \in MakePlanOps /\ last.ret # "HIPFFT_SUCCESS")
           \/ last.op \in {"hipfftSetWorkArea", "hipfftSetAutoAllocation"}) =>
          (plan # NULLH => plan.workBufferSize = last.args.h.workBufferSize)
    /\ (plan # NULLH /\ ~hist.made) => plan.workBufferSize = 0

\* a complex-to-complex make-plan whose plans reported 1 and MaxWork
C14_Witness ==
    /\ last.op = "hipfftMakePlan1d" /\ last.ret = "HIPFFT_SUCCESS"
    /\ last.args.type = "HIPFFT_C2C"
    /\ {q[2] : q \in Queries} = {1, MaxWork}
    /\ Cardinality(Queries) = 4
    /\ last.workSize = MaxWork
    /\ plan.workBufferSize = MaxWork

\* the backend as the last operation met it: the plans it created and the
\* work buffer sizes they reported
BackendMet ==
    [create |-> [s \in Slots |-> s \in CreatedSlots],
     req |-> [s \in Slots |->
                 IF \E q \in Queries : q[1] = s
                 THEN (CHOOSE q \in Queries : q[1] = s)[2] ELSE 0],
     fail |-> "none",
     uninit |-> 0]

\* a handle fresh from hipfftCreate
FreshHandle == hipfftCreate(World(NULLH, NoResources), TRUE).w

\* the make-plan that corresponds to the last work size query, on a fresh
\* handle, with the query's parameters and the backend it met
MadeOnFresh ==
    CASE last.op = "hipfftGetSize1d" ->
            hipfftMakePlan1d(FreshHandle, last.args.nx, last.args.type, last.args.batch,
                             TRUE, BackendMet)
      [] last.op = "hipfftGetSize2d" ->
            hipfftMakePlan2d(FreshHandle, last.args.nx, last.args.ny, last.args.type,
                             TRUE, BackendMet)
      [] last.op = "hipfftGetSize3d" ->
            hipfftMakePlan3d(FreshHandle, last.args.nx, last.args.ny, last.args.nz,
                             last.args.type, TRUE, BackendMet)
      [] last.op = "hipfftGetSizeMany" ->
            hipfftMakePlanMany(FreshHandle, last.args.a, last.args.type, TRUE, BackendMet)
      [] last.op = "hipfftGetSizeMany64" ->
            hipfftMakePlanMany64(FreshHandle, last.args.a, last.args.type, TRUE, BackendMet)

\* no step of the last work size query was made twice: the backend gave every
\* call one outcome
EachStepOnce ==
    /\ Cardinality(CallsTo(last.log, "rocfft_execution_info_create")) = 1
    /\ Cardinality(CallsTo(last.log, "rocfft_execution_info_destroy")) = 1
    /\ \A i, j \in CallsTo(last.log, "rocfft_plan_create") :
          last.log[i][2] = last.log[j][2] => i = j

\* C15: when hipfftGetSize1d / 2d / 3d / Many / Many64 succeeds against a
\* backend that gives each call one outcome, and the corresponding make-plan
\* with the same parameters on a fresh handle succeeds against that backend,
\* the size the query wrote is >= 0 and is the size the make-plan records in
\* the handle.
C15_GetSizeIsMakePlanSize ==
    (/\ last.op \in {"hipfftGetSize1d", "hipfftGetSize2d", "hipfftGetSize3d",
                     "hipfftGetSizeMany", "hipfftGetSizeMany64"}
     /\ last.ret = "HIPFFT_SUCCESS"
     /\ EachStepOnce
     /\ MadeOnFresh.ret = "HIPFFT_SUCCESS") =>
        /\ last.workSize >= 0
        /\ last.workSize = MadeOnFresh.w.h.workBufferSize

\* hipfftGetSizeMany reported the MaxWork bytes its plans asked for
C15_Witness ==
    /\ last.op = "hipfftGetSizeMany" /\ last.ret = "HIPFFT_SUCCESS"
    /\ EachStepOnce
    /\ MadeOnFresh.ret = "HIPFFT_SUCCESS"
    /\ MadeOnFresh.w.h.workBufferSize = MaxWork
    /\ last.workSize = MaxWork

\* the precision and the real/complex-ness a callback kind asks for
KindPrecision(k) ==
    IF k \in {"HIPFFT_CB_LD_COMPLEX_DOUBLE", "HIPFFT_CB_LD_REAL_DOUBLE",
              "HIPFFT_CB_ST_COMPLEX_DOUBLE", "HIPFFT_CB_ST_REAL_DOUBLE"}
    THEN "64F" ELSE "32F"

KindIsReal(k) ==
    k \in {"HIPFFT_CB_LD_REAL", "HIPFFT_CB_LD_REAL_DOUBLE", "HIPFFT_CB_ST_REAL",
           "HIPFFT_CB_ST_REAL_DOUBLE"}

\* the data type the plan has on the side of kind k: its input for a load
\* kind, its output for a store kind
SideType(k, type) == IF k \in LoadKinds THEN type.inputType ELSE type.outputType

\* the last hipfftXtSetCallback on a handle registered callbacks / stored
\* its pointers
Registered ==
    CallsTo(last.log, "rocfft_execution_info_set_load_callback") # {}

\* the rule as stated: a complex-to-complex plan takes real and complex kinds
MatchesOrEither(k, type) ==
    /\ k # "HIPFFT_CB_UNDEFINED"
    /\ KindPrecision(k) = PrecisionOf(type.inputType)
    /\ \/ IsComplex(type.inputType) /\ IsComplex(type.outputType)
       \/ KindIsReal(k) <=> IsReal(SideType(k, type))

\* the rule of the code: the kind is real exactly when the plan's data on
\* that side is real
Matches(k, type) ==
    /\ k # "HIPFFT_CB_UNDEFINED"
    /\ KindPrecision(k) = PrecisionOf(type.inputType)
    /\ KindIsReal(k) <=> IsReal(SideType(k, type))

\* C16 as stated: hipfftXtSetCallback accepts a kind exactly when its
\* precision is the plan's and its real/complex-ness matches the plan's role
\* on that side, a complex-to-complex plan accepting real and complex kinds;
\* every other kind returns HIPFFT_INVALID_VALUE.
C16_AcceptsEitherOnC2C ==
    (last.op = "hipfftXtSetCallback" /\ last.args.h # NULLH) =>
        /\ Registered <=> MatchesOrEither(last.args.cbtype, last.args.h.type)
        /\ ~MatchesOrEither(last.args.cbtype, last.args.h.type) =>
              last.ret = "HIPFFT_INVALID_VALUE"

\* C16, amended: hipfftXtSetCallback accepts a kind exactly when its precision
\* is the plan's and the kind is real exactly when the plan's data on that side
\* is real, so a complex-to-complex plan accepts only the complex load and
\* store kinds; an accepted kind is stored and returns HIPFFT_SUCCESS when
\* both registrations succeed, every other kind returns HIPFFT_INVALID_VALUE.
C16_AcceptsMatchingKind ==
    (last.op = "hipfftXtSetCallback" /\ last.args.h # NULLH) =>
        IF Matches(last.args.cbtype, last.args.h.type)
        THEN /\ Registered
             /\ (\A i \in 1..Len(last.log) : last.log[i][5] = "success") =>
                   last.ret = "HIPFFT_SUCCESS"
             /\ IF last.args.cbtype \in LoadKinds
                THEN plan.load_callback_ptrs = last.args.callbacks
                     /\ plan.load_callback_data = last.args.callbackData
                ELSE plan.store_callback_ptrs = last.args.callbacks
                     /\ plan.store_callback_data = last.args.callbackData
        ELSE ~Registered /\ last.ret = "HIPFFT_INVALID_VALUE"

\* a planned single precision complex-to-complex handle refused a real load
\* callback
C16_Witness ==
    /\ last.op = "hipfftXtSetCallback"
    /\ last.args.h # NULLH /\ hist.made
    /\ last.args.h.type = IOType("HIP_C_32F", "HIP_C_32F")
    /\ last.args.cbtype = "HIPFFT_CB_LD_REAL"
    /\ last.ret = "HIPFFT_INVALID_VALUE"
    /\ plan = last.args.h

SetOrClear == {"hipfftXtSetCallback", "hipfftXtClearCallback"}

\* C17: hipfftXtSetCallback and hipfftXtClearCallback with a kind that does
\* not match the plan's precision or role, or with HIPFFT_CB_UNDEFINED, return
\* HIPFFT_INVALID_VALUE, register nothing with rocFFT and leave the handle's
\* callback pointers, data pointers and shared sizes as they were; on a null
\* handle they return HIPFFT_INVALID_PLAN.
C17_MismatchChangesNothing ==
    last.op \in SetOrClear =>
        IF last.args.h = NULLH
        THEN last.ret = "HIPFFT_INVALID_PLAN" /\ last.log = <<>> /\ plan = NULLH
        ELSE ~Matches(last.args.cbtype, last.args.h.type) =>
                /\ last.ret = "HIPFFT_INVALID_VALUE"
                /\ last.log = <<>>
                /\ plan = last.args.h

\* a double precision load kind was refused by a single precision plan that
\* has a load callback with a shared size
C17_Witness ==
    /\ last.op = "hipfftXtSetCallback"
    /\ last.args.cbtype = "HIPFFT_CB_LD_COMPLEX_DOUBLE"
    /\ last.args.h # NULLH /\ hist.made
    /\ last.args.h.type = IOType("HIP_C_32F", "HIP_C_32F")
    /\ last.args.h.load_callback_ptrs = "cb"
    /\ last.args.h.load_callback_lds_bytes = 16
    /\ last.ret = "HIPFFT_INVALID_VALUE"
    /\ plan = last.args.h

\* the callback registrations of the last operation for a side, as
\* <<callbacks, data, shared size, outcome>>
Registrations(side) ==
    {<<last.log[i][2], last.log[i][3], last.log[i][4], last.log[i][5]>> :
        i \in CallsTo(last.log, IF side = "load"
                                THEN "rocfft_execution_info_set_load_callback"
                                ELSE "rocfft_execution_info_set_store_callback")}

LoadSide(h) == <<h.load_callback_ptrs, h.load_callback_data, h.load_callback_lds_bytes>>

StoreSide(h) == <<h.store_callback_ptrs, h.store_callback_data, h.store_callback_lds_bytes>>

\* the registration the last operation saw fail
FailMet ==
    IF \E r \in Registrations("load") : r[4] = "fail" THEN "load"
    ELSE IF \E r \in Registrations("store") : r[4] = "fail" THEN "store"
    ELSE "none"

\* C18: after a hipfftXtSetCallback or hipfftXtClearCallback whose kind was
\* accepted, the shared size of the kind's side is 0 and that side holds the
\* given pointers, the other side is as it was, the load callback has been
\* registered with the handle's current load values and, that registration
\* succeeding, the store callback with its current store values;
\* hipfftXtClearCallback does what hipfftXtSetCallback does with null
\* callbacks and data.
C18_SetCallbackResetsSharedSize ==
    /\ (last.op \in SetOrClear /\ Registered) =>
          /\ IF last.args.cbtype \in LoadKinds
             THEN /\ LoadSide(plan) = <<last.args.callbacks, last.args.callbackData, 0>>
                  /\ StoreSide(plan) = StoreSide(last.args.h)
             ELSE /\ StoreSide(plan) = <<last.args.callbacks, last.args.callbackData, 0>>
                  /\ LoadSide(plan) = LoadSide(last.args.h)
          /\ \E out \in {"success", "fail"} :
                Registrations("load") = {LoadSide(plan) \o <<out>>}
          /\ IF FailMet = "load" THEN Registrations("store") = {}
             ELSE \E out \in {"success", "fail"} :
                     Registrations("store") = {StoreSide(plan) \o <<out>>}
          /\ last.ret = IF FailMet = "none" THEN "HIPFFT_SUCCESS" ELSE "HIPFFT_INVALID_VALUE"
    /\ last.op = "hipfftXtClearCallback" =>
          LET set == hipfftXtSetCallback(World(last.args.h, res), NULLP, last.args.cbtype,
                                         NULLP, FailMet)
          IN plan = set.w.h /\ last.ret = set.ret /\ last.log = set.w.log

\* a new load callback reset the load shared size of 16 and left the store
\* side, with its shared size of 16, alone
C18_Witness ==
    /\ last.op = "hipfftXtSetCallback" /\ last.ret = "HIPFFT_SUCCESS"
    /\ last.args.cbtype \in LoadKinds
    /\ LoadSide(last.args.h) = <<"cb", "data", 16>>
    /\ StoreSide(last.args.h) = <<"cb", "data", 16>>
    /\ LoadSide(plan) = <<"cb", "data", 0>>
    /\ StoreSide(plan) = <<"cb", "data", 16>>

\* the doubles that are not finite
NonFinite == {"inf", "-inf", "nan"}

\* C19: the scale factor of a handle is finite in every state: it is 1.0 after
\* hipfftCreate, hipfftExtPlanScaleFactor with a non-finite factor returns
\* HIPFFT_INVALID_VALUE and leaves the handle as it was, with a finite factor
\* it stores the factor, returns HIPFFT_SUCCESS, changes nothing else and
\* calls nothing; a make-plan leaves the factor alone.
C19_ScaleFactorFinite ==
    /\ plan # NULLH => plan.scale_factor \notin NonFinite
    /\ (last.op = "hipfftCreate" /\ plan # NULLH) => plan.scale_factor = "1.0"
    /\ last.op = "hipfftExtPlanScaleFactor" =>
          /\ last.log = <<>>
          /\ IF last.args.scalefactor \in NonFinite
             THEN last.ret = "HIPFFT_INVALID_VALUE" /\ plan = last.args.h
             ELSE /\ last.ret = "HIPFFT_SUCCESS"
                  /\ plan = [last.args.h EXCEPT !.scale_factor = last.args.scalefactor]
    /\ last.op \in MakePlanOps => plan.scale_factor = last.args.h.scale_factor

\* a planned handle with scale factor 2.0 refused a NaN
C19_Witness ==
    /\ last.op = "hipfftExtPlanScaleFactor"
    /\ last.args.scalefactor = "nan"
    /\ hist.made
    /\ last.args.h.scale_factor = "2.0"
    /\ last.ret = "HIPFFT_INVALID_VALUE"
    /\ plan.scale_factor = "2.0"

\* some rank, batch, length, stride or distance of the "many" arguments a is
\* negative
NegativeIn(a) ==
    \/ a.rank < 0 \/ a.batch < 0
    \/ a.istride < 0 \/ a.idist < 0 \/ a.ostride < 0 \/ a.odist < 0
    \/ \E i \in 1..a.rank :
          \/ a.n[i] < 0
          \/ ~a.inembed.null /\ a.inembed.at[i] < 0
          \/ ~a.onembed.null /\ a.onembed.at[i] < 0

\* the last call, a make-plan or a work size query, has an invalid size or
\* value parameter: a negative number, a hipfftType that is none, or an
\* incompatible triple of data types
InvalidParameters ==
    CASE last.op \in {"hipfftMakePlan1d", "hipfftGetSize1d", "hipfftEstimate1d"} ->
            last.args.nx < 0 \/ last.args.batch < 0 \/ last.args.type \notin HipfftTypes
      [] last.op \in {"hipfftMakePlan2d", "hipfftGetSize2d", "hipfftEstimate2d"} ->
            last.args.nx < 0 \/ last.args.ny < 0 \/ last.args.type \notin HipfftTypes
      [] last.op \in {"hipfftMakePlan3d", "hipfftGetSize3d", "hipfftEstimate3d"} ->
            \/ last.args.nx < 0 \/ last.args.ny < 0 \/ last.args.nz < 0
            \/ last.args.type \notin HipfftTypes
      [] last.op \in {"hipfftMakePlanMany", "hipfftMakePlanMany64", "hipfftGetSizeMany",
                      "hipfftGetSizeMany64", "hipfftEstimateMany"} ->
            NegativeIn(last.args.a) \/ last.args.type \notin HipfftTypes
      [] last.op \in XtOps -> NegativeIn(last.args.a) \/ ~Compatible(last.args.t)

\* C20: a make-plan, a work size query or an estimate with an invalid size or
\* value parameter returns an error without a call to the backend: no
\* execution info, plan description, plan or work buffer is created or
\* touched.
C20_ValidatesFirst ==
    (last.op \in MakePlanOps \cup GetSizeOps /\ InvalidParameters) =>
        last.ret # "HIPFFT_SUCCESS" /\ last.log = <<>>

\* the calls of the last operation that the backend failed and that end the
\* step they belong to: the creation of the execution info in the create
\* step, the destruction of a plan or of the execution info in the destroy step
FailedStepCalls ==
    {i \in 1..Len(last.log) :
        \/ /\ last.log[i][1] \in {"rocfft_execution_info_create",
                                   "rocfft_execution_info_destroy"}
           /\ last.log[i][2] = "fail"
        \/ /\ last.log[i][1] = "rocfft_plan_destroy"
           /\ Len(last.log[i]) = 4}

\* C21: when the create step or the destroy step of a work size query fails,
\* the query returns that step's result at once: the failed backend call is
\* the last call the query issues (the step is not made again and no later
\* step is made) and the query returns HIPFFT_INVALID_VALUE; and no make-plan
\* step is made twice, so no slot's plan is created twice.
C21_ShortCircuit ==
    last.op \in GetSizeOps =>
        /\ \A i \in FailedStepCalls :
              i = Len(last.log) /\ last.ret = "HIPFFT_INVALID_VALUE"
        /\ \A i, j \in CallsTo(last.log, "rocfft_plan_create") :
              last.log[i][2] = last.log[j][2] => i = j

SizedOps ==
    MakePlanOps \cup {"hipfftGetSize1d", "hipfftGetSize2d", "hipfftGetSize3d",
                      "hipfftGetSizeMany", "hipfftGetSizeMany64", "hipfftXtGetSizeMany"}

FixedRankOps ==
    {"hipfftMakePlan1d", "hipfftMakePlan2d", "hipfftMakePlan3d",
     "hipfftGetSize1d", "hipfftGetSize2d", "hipfftGetSize3d"}

\* the last call names a transform the library has a case for; where it takes
\* embeddings, both or neither are null
WellFormed ==
    CASE last.op \in FixedRankOps -> last.args.type \in HipfftTypes
      [] last.op \in XtOps ->
            /\ last.args.t[1] \in SupportedDataTypes /\ Compatible(last.args.t)
            /\ ~EmbedMismatch(last.args.a.inembed, last.args.a.onembed)
      [] OTHER ->
            /\ last.args.type \in HipfftTypes
            /\ ~EmbedMismatch(last.args.a.inembed, last.args.a.onembed)

\* a dimension (a size, one of the first rank lengths or embed dimensions), a
\* stride, a distance or the batch of the last call is negative
NegativeSize ==
    IF last.op = "hipfftMakePlan1d" \/ last.op = "hipfftGetSize1d"
    THEN last.args.nx < 0 \/ last.args.batch < 0
    ELSE IF last.op = "hipfftMakePlan2d" \/ last.op = "hipfftGetSize2d"
    THEN last.args.nx < 0 \/ last.args.ny < 0
    ELSE IF last.op = "hipfftMakePlan3d" \/ last.op = "hipfftGetSize3d"
    THEN last.args.nx < 0 \/ last.args.ny < 0 \/ last.args.nz < 0
    ELSE \/ last.args.a.batch < 0
         \/ last.args.a.istride < 0 \/ last.args.a.idist < 0
         \/ last.args.a.ostride < 0 \/ last.args.a.odist < 0
         \/ \E i \in 1..last.args.a.rank :
               \/ last.args.a.n[i] < 0
               \/ ~last.args.a.inembed.null /\ last.args.a.inembed.at[i] < 0
               \/ ~last.args.a.onembed.null /\ last.args.a.onembed.at[i] < 0

\* the rank, a stride, a distance or one of the first rank lengths of the last
\* "many" call is negative
NegativeLayout ==
    \/ last.args.a.rank < 0
    \/ last.args.a.istride < 0 \/ last.args.a.idist < 0
    \/ last.args.a.ostride < 0 \/ last.args.a.odist < 0
    \/ \E i \in 1..last.args.a.rank : last.args.a.n[i] < 0

MadeAgain(a) ==
    CASE last.op = "hipfftMakePlanMany" ->
            hipfftMakePlanMany(World(last.args.h, NoResources), a, last.args.type, TRUE,
                               BackendMet)
      [] last.op = "hipfftMakePlanMany64" ->
            hipfftMakePlanMany64(World(last.args.h, NoResources), a, last.args.type, TRUE,
                                 BackendMet)
      [] last.op = "hipfftXtMakePlanMany" ->
            hipfftXtMakePlanMany(World(last.args.h, NoResources), a, last.args.t, TRUE,
                                 BackendMet)

\* the layouts the last operation gave to the backend
LayoutsSet ==
    {last.log[i] : i \in CallsTo(last.log, "rocfft_plan_description_set_data_layout")}

\* C23: a "many" make-plan with both embeddings null and non-negative strides
\* and distances does what the same call with istride = ostride = 1 and
\* idist = odist = 0 does: the same calls with the same layouts and
\* descriptions reach the backend, the handle is left the same (the same
\* slots populated), and the same result and work size are returned; the
\* layouts have unit stride in the fastest dimension.
C23_NullEmbedsIgnoreStrides ==
    (/\ last.op \in ManyOps
     /\ last.args.a.inembed.null /\ last.args.a.onembed.null
     /\ ~NegativeIn(last.args.a)) =>
        /\ LET same(again) ==
                   /\ again.w.log = last.log
                   /\ again.w.h = plan
                   /\ again.ret = last.ret
                   /\ again.workSize = last.workSize
           IN same(MadeAgain([last.args.a EXCEPT !.istride = 1, !.idist = 0,
                                                 !.ostride = 1, !.odist = 0]))
        /\ \A c \in LayoutsSet : c[3].inStrides[1] = 1 /\ c[3].outStrides[1] = 1

\* a real-to-complex hipfftMakePlanMany of rank 3 with null embeddings, input
\* stride 2 and input distance 7 has given the backend two layouts
C23_Witness ==
    /\ last.op = "hipfftMakePlanMany" /\ last.args.type = "HIPFFT_R2C"
    /\ last.args.a.inembed.null /\ last.args.a.onembed.null
    /\ last.args.a.rank = 3
    /\ last.args.a.istride = 2 /\ last.args.a.idist = 7
    /\ last.args.a.ostride = 2 /\ last.args.a.odist = 7
    /\ last.ret = "HIPFFT_SUCCESS"
    /\ Cardinality(LayoutsSet) = 2
    /\ plan.op_forward = LIVE

\* the backend gave its version string to the last operation
VersionRead ==
    \E i \in CallsTo(last.log, "rocfft_get_version_string") : last.log[i][2] = "success"

\* C24 as claimed: for a backend version string major.minor.patch[.tweak],
\* hipfftGetVersion stores major * 10000 + minor * 100 + patch,
\* hipfftGetProperty stores major, minor and patch for HIPFFT_MAJOR_VERSION,
\* HIPFFT_MINOR_VERSION and HIPFFT_PATCH_LEVEL, and returns HIPFFT_INVALID_TYPE
\* for any other property.
C24_VersionEncoding ==
    /\ (last.op = "hipfftGetVersion" /\ VersionRead) =>
           /\ last.ret = "HIPFFT_SUCCESS"
           /\ last.value = stoi(last.args.v[1]) * 10000 + stoi(last.args.v[2]) * 100
                                + stoi(last.args.v[3])
    /\ (last.op = "hipfftGetProperty" /\ VersionRead) =>
           IF last.args.type \in PropertyTypes
           THEN /\ last.ret = "HIPFFT_SUCCESS"
                /\ last.value =
                      stoi(last.args.v[CASE last.args.type = "HIPFFT_MAJOR_VERSION" -> 1
                                         [] last.args.type = "HIPFFT_MINOR_VERSION" -> 2
                                         [] last.args.type = "HIPFFT_PATCH_LEVEL" -> 3])
           ELSE last.ret = "HIPFFT_INVALID_TYPE"

\* C24 amended: the same, for version strings whose minor and patch sections
\* have at most two digits.
C24_VersionEncodingTwoDigits ==
    (/\ last.op \in {"hipfftGetVersion", "hipfftGetProperty"}
     /\ Len(last.args.v[2]) <= 2 /\ Len(last.args.v[3]) <= 2) =>
        C24_VersionEncoding

\* hipfftGetProperty(HIPFFT_MINOR_VERSION) of the version 12.10.23.45 gave 10
C24_Witness ==
    /\ last.op = "hipfftGetProperty" /\ last.args.type = "HIPFFT_MINOR_VERSION"
    /\ last.args.v = <<<<1, 2>>, <<1, 0>>, <<2, 3>>, <<4, 5>>>>
    /\ VersionRead
    /\ last.ret = "HIPFFT_SUCCESS" /\ last.value = 10

\* a call of the last operation other than rocfft_plan_create failed
OtherCallFailed ==
    \E i \in 1..Len(last.log) :
        \/ last.log[i][1] = "hipFree" /\ Len(last.log[i]) = 3
        \/ last.log[i][1] = "hipMalloc" /\ last.log[i][3] = "fail"
        \/ /\ last.log[i][1] \in {"rocfft_plan_get_work_buffer_size",
                                   "rocfft_execution_info_set_work_buffer",
                                   "rocfft_plan_description_set_data_layout"}
           /\ last.log[i][4] = "fail"

\* the last operation, a make-plan for a recognised transform, called
\* rocfft_plan_create once for each slot of the transform's direction set (two
\* slots for real-to-complex and complex-to-real, four for
\* complex-to-complex), and afterwards a slot whose creation failed is empty
\* and a slot whose creation succeeded holds its plan
EveryAttemptMade ==
    /\ AttemptedSlots = DirectionSet(last.args.type)
    /\ Cardinality(CallsTo(last.log, "rocfft_plan_create"))
          = Cardinality(DirectionSet(last.args.type))
    /\ \A s \in AttemptedSlots \ CreatedSlots : plan[s] = NULLP
    /\ \A s \in CreatedSlots : plan[s] = LIVE

\* C25 as claimed: a make-plan attempts plan creation for every slot of the
\* transform's direction set whichever attempts fail, a failed attempt leaves
\* its slot empty and the others as the other attempts left them, and the
\* call returns HIPFFT_SUCCESS when an attempt succeeded.
C25_SucceedsWithOnePlan ==
    (last.op = "hipfftMakePlan1d" /\ last.args.type \in HipfftTypes) =>
        /\ EveryAttemptMade
        /\ CreatedSlots # {} => last.ret = "HIPFFT_SUCCESS"

\* C25 amended: the same, the call returning HIPFFT_SUCCESS when an attempt
\* succeeded and no later backend call (work buffer size query, hipFree,
\* hipMalloc, binding of the work buffer) failed.
C25_SucceedsUnlessLaterFailure ==
    (last.op = "hipfftMakePlan1d" /\ last.args.type \in HipfftTypes) =>
        /\ EveryAttemptMade
        /\ (CreatedSlots # {} /\ ~OtherCallFailed) => last.ret = "HIPFFT_SUCCESS"

\* a complex-to-complex make-plan whose first, second and fourth creations
\* failed and whose third succeeded
C25_Witness ==
    /\ last.op = "hipfftMakePlan1d" /\ last.args.type = "HIPFFT_C2C"
    /\ AttemptedSlots = Slots
    /\ CreatedSlots = {"ip_inverse"}
    /\ plan.ip_forward = NULLP /\ plan.op_forward = NULLP
    /\ plan.ip_inverse = LIVE /\ plan.op_inverse = NULLP
    /\ ~OtherCallFailed
    /\ last.ret = "HIPFFT_SUCCESS"

\* n[1] * ... * n[k]
RECURSIVE ProductOfFirst(_, _)
ProductOfFirst(n, k) == IF k = 0 THEN 1 ELSE n[k] * ProductOfFirst(n, k - 1)

\* the layout of the description the last operation created the plan of slot
\* s with
CreatedWith(s) ==
    last.log[CHOOSE i \in CallsTo(last.log, "rocfft_plan_create") : last.log[i][2] = s][4].layout

\* the role of the transform of the last "many" make-plan
ManyRole ==
    IF last.op = "hipfftXtMakePlanMany"
    THEN (IF IsReal(last.args.t[1]) THEN "r2c"
          ELSE IF IsReal(last.args.t[2]) THEN "c2r" ELSE "c2c")
    ELSE (IF last.args.type \in {"HIPFFT_R2C", "HIPFFT_D2Z"} THEN "r2c"
          ELSE IF last.args.type \in {"HIPFFT_C2R", "HIPFFT_Z2D"} THEN "c2r" ELSE "c2c")

\* C26: a "many" make-plan with null embeddings, rank 1 to 3 and fastest
\* dimension n = n[rank], the product of the other lengths being p, creates
\* for real-to-complex: the in-place plan with input distance 2 * (1 + n/2) * p
\* and output distance (1 + n/2) * p, the input distance twice the output
\* distance, and the out-of-place plan with input distance n * p and the same
\* output distance; for complex-to-real the same with input and output
\* exchanged; for complex-to-complex all four plans with input and output
\* distance n * p.
C26_NaturalDistances ==
    (/\ last.op \in ManyOps
     /\ last.args.a.inembed.null /\ last.args.a.onembed.null
     /\ last.args.a.rank \in 1..3
     /\ AttemptedSlots # {}) =>
        LET n == last.args.a.n[last.args.a.rank]
            p == ProductOfFirst(last.args.a.n, last.args.a.rank - 1)
            half == 1 + n \div 2
        IN CASE ManyRole = "r2c" ->
                  /\ AttemptedSlots = {"ip_forward", "op_forward"}
                  /\ CreatedWith("ip_forward").inDist = 2 * half * p
                  /\ CreatedWith("ip_forward").outDist = half * p
                  /\ CreatedWith("ip_forward").inDist = 2 * CreatedWith("ip_forward").outDist
                  /\ CreatedWith("op_forward").inDist = n * p
                  /\ CreatedWith("op_forward").outDist = half * p
             [] ManyRole = "c2r" ->
                  /\ AttemptedSlots = {"ip_inverse", "op_inverse"}
                  /\ CreatedWith("ip_inverse").outDist = 2 * half * p
                  /\ CreatedWith("ip_inverse").inDist = half * p
                  /\ CreatedWith("ip_inverse").outDist = 2 * CreatedWith("ip_inverse").inDist
                  /\ CreatedWith("op_inverse").outDist = n * p
                  /\ CreatedWith("op_inverse").inDist = half * p
             [] ManyRole = "c2c" ->
                  /\ AttemptedSlots = Slots
                  /\ \A s \in Slots :
                        CreatedWith(s).inDist = n * p /\ CreatedWith(s).outDist = n * p

\* a double precision real-to-complex hipfftMakePlanMany64 of rank 3 with
\* lengths 5 x 3 x 2: in place 12 reals in and 6 complex out per row of 2,
\* times 15; out of place 30 reals in
C26_Witness ==
    /\ last.op = "hipfftMakePlanMany64" /\ last.args.type = "HIPFFT_D2Z"
    /\ last.args.a.inembed.null /\ last.args.a.onembed.null
    /\ last.args.a.rank = 3 /\ last.args.a.n = <<5, 3, 2>>
    /\ AttemptedSlots = {"ip_forward", "op_forward"}
    /\ CreatedWith("ip_forward").inDist = 60 /\ CreatedWith("ip_forward").outDist = 30
    /\ CreatedWith("op_forward").inDist = 30 /\ CreatedWith("op_forward").outDist = 30
    /\ last.ret = "HIPFFT_SUCCESS"

\* C27: whenever plan->workBufferNeedsFree is set, plan->workBuffer is a
\* buffer from hipMalloc that has not been freed; and no operation passes to
\* hipFree a buffer that has been freed already.
C27_OwnedBufferIsLive ==
    /\ (plan # NULLH /\ plan.workBufferNeedsFree) => plan.workBuffer = LIVE
    /\ DEAD \notin Freed

\* C28: once hipfftDestroy has returned HIPFFT_SUCCESS on a handle, no rocFFT
\* plan created for it is left alive; and no operation passes to
\* rocfft_plan_destroy a plan that has been destroyed already.
C28_PlansDestroyedOnce ==
    /\ (last.op = "hipfftDestroy" /\ last.args.h # NULLH /\ last.ret = "HIPFFT_SUCCESS")
          => res.plans = 0
    /\ \A i \in CallsTo(last.log, "rocfft_plan_destroy") : last.log[i][3] # DEAD

PlanOps == {"hipfftPlan1d", "hipfftPlan2d", "hipfftPlan3d", "hipfftPlanMany", "hipfftPlanMany64"}

\* C29: when hipfftPlan1d / 2d / 3d / Many / Many64 returns HIPFFT_SUCCESS,
\* called with *plan null, *plan is a handle, the call has created a plan for
\* it, and a slot of it is populated.
C29_SuccessWritesHandle ==
    (last.op \in PlanOps /\ last.ret = "HIPFFT_SUCCESS") =>
        /\ plan # NULLH
        /\ CreatedSlots # {}
        /\ \E s \in CreatedSlots : plan[s] = LIVE

\* C30: a "many" make-plan never writes past the end of its arrays of 3, and
\* with a rank of 0 or of more than 3 it returns an error without a call to
\* the backend.
C30_RankWithinArrays ==
    last.op \in ManyOps =>
        /\ CallsTo(last.log, "write past the end") = {}
        /\ last.args.a.rank \notin 1..3 => last.ret # "HIPFFT_SUCCESS" /\ last.log = <<>>

====
